---- MODULE Spec2Model ----
(***************************************************************************)
(* kahook: an HTTP-to-Kafka webhook bridge.                                *)
(*                                                                         *)
(* The module models the authentication strategies of internal/auth, the  *)
(* HTTP handler chain of internal/server with the Kafka producer it        *)
(* publishes through, the start of the process (internal/config and main)  *)
(* and its end: the signal, the shutdown of the server and the closing of  *)
(* the producer.                                                           *)
(*                                                                         *)
(* A Go string is a sequence of one-character strings, so that splitting,  *)
(* trimming, case folding and base64 decoding are computed character by    *)
(* character as the library functions compute them.                        *)
(***************************************************************************)
EXTENDS Integers, Sequences, FiniteSets, TLC

VARIABLES
    \* ---- internal/auth ----
    callerUsers,    \* the caller's map[string]string object (a Go map is a reference)
    callerTokens,   \* the caller's []string backing array
    built,          \* history: the users and tokens as they were when the strategies were built
    basicAuth,      \* *BasicAuth built by NewBasicAuth
    bearerAuth,     \* *BearerAuth built by NewBearerAuth
    multiAuth,      \* *MultiAuth built by NewMultiAuth (the one the server holds)
    lastCall,       \* the last Authenticate call made directly on a strategy, and its outcome
    \* ---- internal/server, internal/kafka ----
    conn,           \* per connection: the request being served, its response writer, the
                    \* Produce calls made for it and the handler's position
    metrics,        \* the four atomic counters of Metrics
    served,         \* number of requests accepted so far (bounds the run)
    outside,        \* what lies outside the process, where a run observes it: the client
                    \* library's queue, the broker's log, the 202 responses clients got
    \* ---- cmd: main, internal/config ----
    main            \* the process: its environment and config file, the position of
                    \* main, the configuration and the error Load returned

authVars   == <<callerUsers, callerTokens, built, basicAuth, bearerAuth, multiAuth, lastCall>>
serverVars == <<conn, metrics, served, outside>>
mainVars   == <<main>>
vars       == <<callerUsers, callerTokens, built, basicAuth, bearerAuth, multiAuth, lastCall,
                conn, metrics, served, outside, main>>

-----------------------------------------------------------------------------
(* Bounds of the model *)

\* longest token list handed to NewBearerAuth / NewMultiAuth
MaxTokens == 2
\* number of requests the server accepts in one run
MaxRequests == 2

-----------------------------------------------------------------------------
(* Go strings and the library functions the code calls on them *)

UpperCase ==
    <<"A","B","C","D","E","F","G","H","I","J","K","L","M",
      "N","O","P","Q","R","S","T","U","V","W","X","Y","Z">>
LowerCase ==
    <<"a","b","c","d","e","f","g","h","i","j","k","l","m",
      "n","o","p","q","r","s","t","u","v","w","x","y","z">>

\* strings.ToLower, one character
ToLowerChar(c) ==
    IF \E i \in 1..26 : UpperCase[i] = c
    THEN LowerCase[CHOOSE i \in 1..26 : UpperCase[i] = c]
    ELSE c

\* strings.ToLower
ToLower(s) == [i \in 1..Len(s) |-> ToLowerChar(s[i])]

\* strings.Index for a one-character separator: first position of c in s, 0 if none
IndexOf(s, c) ==
    IF \E i \in 1..Len(s) : s[i] = c
    THEN CHOOSE i \in 1..Len(s) : s[i] = c /\ \A j \in 1..(i - 1) : s[j] # c
    ELSE 0

\* strings.SplitN(s, " ", 2): at most two parts, split at the first space
SplitN2(s) ==
    LET i == IndexOf(s, " ")
    IN  IF i = 0 THEN <<s>>
        ELSE <<SubSeq(s, 1, i - 1), SubSeq(s, i + 1, Len(s))>>

\* strings.Cut(s, ":"): before, after, found
Cut(s) ==
    LET i == IndexOf(s, ":")
    IN  IF i = 0 THEN [before |-> s, after |-> <<>>, found |-> FALSE]
        ELSE [before |-> SubSeq(s, 1, i - 1), after |-> SubSeq(s, i + 1, Len(s)),
              found |-> TRUE]

\* strings.Contains(s, "/")
ContainsSlash(s) == \E i \in 1..Len(s) : s[i] = "/"

\* strings.Trim(s, "/"): all leading and all trailing '/' removed
Trim(s) ==
    LET keep == {i \in 1..Len(s) : s[i] # "/"}
    IN  IF keep = {} THEN <<>>
        ELSE SubSeq(s, CHOOSE i \in keep : \A j \in keep : i <= j,
                       CHOOSE i \in keep : \A j \in keep : j <= i)

\* subtle.ConstantTimeCompare: 1 when the two byte strings are equal, else 0
ConstantTimeCompare(x, y) ==
    IF Len(x) # Len(y) THEN 0
    ELSE IF \A i \in 1..Len(x) : x[i] = y[i] THEN 1 ELSE 0

\* the | operator on the 0/1 results of ConstantTimeCompare
BitOr(a, b) == IF a = 1 \/ b = 1 THEN 1 ELSE 0

(* encoding/base64, StdEncoding (padded): r.BasicAuth() decodes with it *)
B64Alphabet ==
    <<"A","B","C","D","E","F","G","H","I","J","K","L","M",
      "N","O","P","Q","R","S","T","U","V","W","X","Y","Z",
      "a","b","c","d","e","f","g","h","i","j","k","l","m",
      "n","o","p","q","r","s","t","u","v","w","x","y","z",
      "0","1","2","3","4","5","6","7","8","9","+","/">>

\* the printable ASCII characters, codes 32..126 (the double quote, the backslash
\* and the backquote are written by their codes)
Ascii ==
    <<" ","!","#34","#","$","%","&","'","(",")","*","+",",","-",".","/",
      "0","1","2","3","4","5","6","7","8","9",":",";","<","=",">","?",
      "@","A","B","C","D","E","F","G","H","I","J","K","L","M","N","O",
      "P","Q","R","S","T","U","V","W","X","Y","Z","[","#92","]","^","_",
      "#96","a","b","c","d","e","f","g","h","i","j","k","l","m","n","o",
      "p","q","r","s","t","u","v","w","x","y","z","{","|","}","~">>

\* the character of a byte; a byte outside the printable range keeps its code
Chr(b) == IF b \in 32..126 THEN Ascii[b - 31] ELSE "#" \o ToString(b)

IsB64Char(c) == \E i \in 1..64 : B64Alphabet[i] = c
B64Val(c) == IF IsB64Char(c) THEN (CHOOSE i \in 1..64 : B64Alphabet[i] = c) - 1 ELSE 0

\* base64.StdEncoding.DecodeString: [ok, out]
B64Decode(s) ==
    LET n   == Len(s)
        pad == IF n >= 2 /\ s[n] = "=" /\ s[n - 1] = "=" THEN 2
               ELSE IF n >= 1 /\ s[n] = "=" THEN 1 ELSE 0
        ok  == /\ n % 4 = 0
               /\ \A i \in 1..(n - pad) : IsB64Char(s[i])
        v(q, j) == B64Val(s[4 * (q - 1) + j])
        byte(k) ==
            LET q == ((k - 1) \div 3) + 1
                r == (k - 1) % 3
            IN  IF r = 0 THEN v(q, 1) * 4 + (v(q, 2) \div 16)
                ELSE IF r = 1 THEN (v(q, 2) % 16) * 16 + (v(q, 3) \div 4)
                ELSE (v(q, 3) % 4) * 64 + v(q, 4)
    IN  IF ok
        THEN [ok |-> TRUE, out |-> [k \in 1..(3 * (n \div 4) - pad) |-> Chr(byte(k))]]
        ELSE [ok |-> FALSE, out |-> <<>>]

-----------------------------------------------------------------------------
(* net/http: headers *)

\* canonical header names
HdrAuthorization == <<"A","u","t","h","o","r","i","z","a","t","i","o","n">>

\* the empty string
Empty == <<>>

\* http.Header.Get: the first value stored under the name, "" when there is none
HeaderGet(h, name) == IF name \in DOMAIN h THEN h[name][1] ELSE Empty

\* http.Request.BasicAuth (parseBasicAuth): [username, password, ok]
RequestBasicAuth(r) ==
    LET auth   == HeaderGet(r.Header, HdrAuthorization)
        prefix == <<"b","a","s","i","c"," ">>
        no     == [username |-> Empty, password |-> Empty, ok |-> FALSE]
    IN  IF auth = Empty THEN no
        ELSE IF Len(auth) < 6 \/ ToLower(SubSeq(auth, 1, 6)) # prefix THEN no
        ELSE LET c == B64Decode(SubSeq(auth, 7, Len(auth)))
             IN  IF ~c.ok THEN no
                 ELSE LET cs == Cut(c.out)
                      IN  IF ~cs.found THEN no
                          ELSE [username |-> cs.before, password |-> cs.after, ok |-> TRUE]

-----------------------------------------------------------------------------
(* internal/auth *)

\* a nil map
Nil == "nil"

\* a nil pointer to a strategy
NilAuth == [nil |-> TRUE]

\* a reference to the caller's map object
CallerUsersRef == "callerUsers"

\* a map with no entries
EmptyMap == <<>>

\* the map a map reference denotes (a nil map reads as empty)
MapAt(ref) == IF ref = CallerUsersRef THEN callerUsers ELSE EmptyMap

\* m[k] = v on a Go map
MapSet(m, k, v) == (k :> v) @@ m

\* delete(m, k) on a Go map
MapDelete(m, k) == [x \in (DOMAIN m) \ {k} |-> m[x]]

\* len(users) of a map reference
MapLen(m) == Cardinality(DOMAIN m)

\* NewBasicAuth: the map reference is stored as given
NewBasicAuth(users) == [users |-> users]

\* mutant: the password comparison is left out, a known username is enough
BasicAuth_AuthenticateNoPassword(a, r) ==
    LET cred == RequestBasicAuth(r)
    IN  cred.ok /\ cred.username \in DOMAIN MapAt(a.users)

\* BasicAuth.Authenticate
BasicAuth_Authenticate(a, r) ==
    LET cred == RequestBasicAuth(r)
        m    == MapAt(a.users)
    IN  IF ~cred.ok THEN FALSE
        ELSE IF cred.username \notin DOMAIN m THEN FALSE
        ELSE ConstantTimeCompare(cred.password, m[cred.username]) = 1

\* NewBearerAuth: make([]string, len(tokens)) and copy(t, tokens)
NewBearerAuth(tokens) == [tokens |-> [i \in 1..Len(tokens) |-> tokens[i]]]

\* mutant: matched = ... instead of matched |= ..., the last comparison wins
RECURSIVE BearerLoopOverwrite(_, _, _, _)
BearerLoopOverwrite(tokens, incoming, i, acc) ==
    IF i > Len(tokens) THEN acc
    ELSE BearerLoopOverwrite(tokens, incoming, i + 1,
                             [matched  |-> ConstantTimeCompare(incoming, tokens[i]),
                              compares |-> acc.compares + 1])

\* mutant: the loop stops at the first token that matches
RECURSIVE BearerLoopShortCircuit(_, _, _, _)
BearerLoopShortCircuit(tokens, incoming, i, acc) ==
    IF i > Len(tokens) \/ acc.matched = 1 THEN acc
    ELSE BearerLoopShortCircuit(tokens, incoming, i + 1,
                                [matched  |-> ConstantTimeCompare(incoming, tokens[i]),
                                 compares |-> acc.compares + 1])

\* the loop of BearerAuth.Authenticate over a.tokens from index i on:
\* matched |= ConstantTimeCompare(incoming, t), counting the comparisons made
RECURSIVE BearerLoop(_, _, _, _)
BearerLoop(tokens, incoming, i, acc) ==
    IF i > Len(tokens) THEN acc
    ELSE BearerLoop(tokens, incoming, i + 1,
                    [matched  |-> BitOr(acc.matched, ConstantTimeCompare(incoming, tokens[i])),
                     compares |-> acc.compares + 1])

\* mutant: the scheme is recognised as a prefix (HasPrefix and TrimPrefix), no space is
\* needed between the word and the token
BearerAuth_RunPrefixOnly(a, r) ==
    LET authHeader == HeaderGet(r.Header, HdrAuthorization)
        no         == [ok |-> FALSE, compares |-> 0]
    IN  IF Len(authHeader) < 6 THEN no
        ELSE IF ToLower(SubSeq(authHeader, 1, 6)) # <<"b","e","a","r","e","r">> THEN no
        ELSE LET rest     == SubSeq(authHeader, 7, Len(authHeader))
                 incoming == IF rest # Empty /\ rest[1] = " " THEN Tail(rest) ELSE rest
                 res      == BearerLoop(a.tokens, incoming, 1, [matched |-> 0, compares |-> 0])
             IN  [ok |-> res.matched = 1, compares |-> res.compares]

\* BearerAuth.Authenticate with the number of ConstantTimeCompare calls it made
BearerAuth_Run(a, r) ==
    LET authHeader == HeaderGet(r.Header, HdrAuthorization)
        parts      == SplitN2(authHeader)
        no         == [ok |-> FALSE, compares |-> 0]
    IN  IF authHeader = Empty THEN no
        ELSE IF Len(parts) # 2 \/ ToLower(parts[1]) # <<"b","e","a","r","e","r">> THEN no
        ELSE LET res == BearerLoop(a.tokens, parts[2], 1, [matched |-> 0, compares |-> 0])
             IN  [ok |-> res.matched = 1, compares |-> res.compares]

\* BearerAuth.Authenticate
BearerAuth_Authenticate(a, r) == BearerAuth_Run(a, r).ok

\* mutant: a refused attempt locks the strategy, it forgets its tokens
BearerAuth_AfterLockout(a, r) ==
    IF BearerAuth_Authenticate(a, r) THEN a ELSE [a EXCEPT !.tokens = <<>>]

\* the receiver after BasicAuth.Authenticate: the method reads a.users and assigns to
\* no field
BasicAuth_After(a, r) == a

\* the receiver after BearerAuth.Authenticate: the method ranges over a.tokens and
\* assigns to no field
BearerAuth_After(a, r) == a

\* mutant: both sub-strategies are built whatever the lengths
NewMultiAuthAlways(users, tokens) ==
    [basic |-> NewBasicAuth(users), bearer |-> NewBearerAuth(tokens)]

\* NewMultiAuth: a sub-strategy only for a non-empty users map / tokens slice
NewMultiAuth(users, tokens) ==
    [basic  |-> IF MapLen(MapAt(users)) > 0 THEN NewBasicAuth(users) ELSE NilAuth,
     bearer |-> IF Len(tokens) > 0 THEN NewBearerAuth(tokens) ELSE NilAuth]

\* MultiAuth.HasAuth
HasAuth(m) == m.basic # NilAuth \/ m.bearer # NilAuth

\* mutant: the scheme is compared without strings.ToLower
MultiAuth_AuthenticateCaseSensitive(m, r) ==
    IF ~HasAuth(m) THEN TRUE
    ELSE LET authHeader == HeaderGet(r.Header, HdrAuthorization)
             parts      == SplitN2(authHeader)
         IN  IF authHeader = Empty THEN FALSE
             ELSE IF Len(parts) # 2 THEN FALSE
             ELSE IF parts[1] = <<"b","a","s","i","c">>
             THEN IF m.basic # NilAuth THEN BasicAuth_Authenticate(m.basic, r) ELSE FALSE
             ELSE IF parts[1] = <<"b","e","a","r","e","r">>
             THEN IF m.bearer # NilAuth THEN BearerAuth_Authenticate(m.bearer, r) ELSE FALSE
             ELSE FALSE

\* mutant: any Authorization header is taken for a credential
MultiAuth_AuthenticateAnyHeader(m, r) ==
    IF ~HasAuth(m) THEN TRUE
    ELSE HeaderGet(r.Header, HdrAuthorization) # Empty

\* MultiAuth.Authenticate
MultiAuth_Authenticate(m, r) ==
    IF ~HasAuth(m) THEN TRUE
    ELSE LET authHeader == HeaderGet(r.Header, HdrAuthorization)
             parts      == SplitN2(authHeader)
         IN  IF authHeader = Empty THEN FALSE
             ELSE IF Len(parts) # 2 THEN FALSE
             ELSE LET scheme == ToLower(parts[1])
                  IN  IF scheme = <<"b","a","s","i","c">>
                      THEN IF m.basic # NilAuth THEN BasicAuth_Authenticate(m.basic, r) ELSE FALSE
                      ELSE IF scheme = <<"b","e","a","r","e","r">>
                      THEN IF m.bearer # NilAuth THEN BearerAuth_Authenticate(m.bearer, r) ELSE FALSE
                      ELSE FALSE

\* the receiver after MultiAuth.Authenticate: the method assigns to no field and hands
\* the request to the sub-strategy the scheme names, if it is configured
MultiAuth_After(m, r) ==
    LET parts == SplitN2(HeaderGet(r.Header, HdrAuthorization))
    IN  IF ~HasAuth(m) \/ Len(parts) # 2 THEN m
        ELSE IF ToLower(parts[1]) = <<"b","a","s","i","c">> /\ m.basic # NilAuth
        THEN [m EXCEPT !.basic = BasicAuth_After(@, r)]
        ELSE IF ToLower(parts[1]) = <<"b","e","a","r","e","r">> /\ m.bearer # NilAuth
        THEN [m EXCEPT !.bearer = BearerAuth_After(@, r)]
        ELSE m

-----------------------------------------------------------------------------
(* internal/server: constants, headers, bodies *)

\* const maxBodyBytes = 1 << 20
maxBodyBytes == 1048576

\* const produceTimeout = 10 * time.Second, in seconds
produceTimeout == 10

\* canonical header names (net/http stores and looks up headers under these)
HdrRequestID       == <<"X","-","R","e","q","u","e","s","t","-","I","d">>
HdrWebhookKey      == <<"X","-","W","e","b","h","o","o","k","-","K","e","y">>
HdrContentType     == <<"C","o","n","t","e","n","t","-","T","y","p","e">>
HdrUserAgent       == <<"U","s","e","r","-","A","g","e","n","t">>
HdrCustom          == <<"X","-","C","u","s","t","o","m">>
HdrWWWAuthenticate == <<"W","w","w","-","A","u","t","h","e","n","t","i","c","a","t","e">>

\* var internalHeaders: the names never forwarded to Kafka
internalHeaders ==
    {<<"a","u","t","h","o","r","i","z","a","t","i","o","n">>,
     <<"c","o","n","t","e","n","t","-","t","y","p","e">>,
     <<"c","o","n","t","e","n","t","-","l","e","n","g","t","h">>,
     <<"h","o","s","t">>,
     <<"u","s","e","r","-","a","g","e","n","t">>,
     <<"a","c","c","e","p","t">>,
     <<"a","c","c","e","p","t","-","e","n","c","o","d","i","n","g">>,
     <<"c","o","n","n","e","c","t","i","o","n">>}

\* mutant: the name is looked up as it was sent
isInternalHeaderExactCase(key) == key \in internalHeaders

\* isInternalHeader
isInternalHeader(key) == ToLower(key) \in internalHeaders

\* http.Header.Set: the name now holds exactly this value
HeaderSet(h, name, value) == MapSet(h, name, <<value>>)

\* A body is its first bytes followed by pad further bytes; fail says that reading
\* it ends in an error (the connection broke) instead of EOF.
BodyLen(b) == Len(b.head) + b.pad

\* a nil []byte
NilBytes == [nil |-> TRUE]

\* []byte(s)
Bytes(s) == [nil |-> FALSE, bytes |-> s]

\* mutant: a body of maxBodyBytes bytes is already too large
ReadBodyOffByOne(b) ==
    IF BodyLen(b) >= maxBodyBytes
    THEN [data |-> [head |-> Empty, pad |-> 0], err |-> "MaxBytesError"]
    ELSE IF b.fail
    THEN [data |-> [head |-> Empty, pad |-> 0], err |-> "unexpected EOF"]
    ELSE [data |-> [head |-> b.head, pad |-> b.pad], err |-> "nil"]

\* io.ReadAll(http.MaxBytesReader(w, r.Body, maxBodyBytes)): [data, err]
ReadBody(b) ==
    IF BodyLen(b) > maxBodyBytes
    THEN [data |-> [head |-> Empty, pad |-> 0], err |-> "MaxBytesError"]
    ELSE IF b.fail
    THEN [data |-> [head |-> Empty, pad |-> 0], err |-> "unexpected EOF"]
    ELSE [data |-> [head |-> b.head, pad |-> b.pad], err |-> "nil"]

-----------------------------------------------------------------------------
(* internal/server: the response writer *)

NoBody == [none |-> TRUE]

\* the writer loggingMiddleware hands to the mux: responseWriter{statusCode: 200} over
\* the connection's writer, whose header already holds the request id; codes and bodies
\* are what has been written to the connection so far
NewResponseWriter(requestID) ==
    [header     |-> HeaderSet(EmptyMap, HdrRequestID, requestID),
     statusCode |-> 200,
     codes      |-> <<>>,
     bodies     |-> <<>>]

\* responseWriter.WriteHeader
WriteHeader(w, code) == [w EXCEPT !.statusCode = code, !.codes = Append(w.codes, code)]

\* Server.writeJSON
writeJSON(w, code, v) ==
    LET w1 == [w EXCEPT !.header = HeaderSet(w.header, HdrContentType, "application/json")]
        w2 == WriteHeader(w1, code)
    IN  [w2 EXCEPT !.bodies = Append(w2.bodies, v)]

\* mutant: the error is written as text first and as JSON after it
writeErrorTextThenJSON(w, code, errorType, message) ==
    LET w1 == WriteHeader(w, code)
        w2 == [w1 EXCEPT !.bodies = Append(w1.bodies, message)]
    IN  writeJSON(w2, code, [error |-> errorType, message |-> message])

\* Server.writeError
writeError(w, code, errorType, message) ==
    writeJSON(w, code, [error |-> errorType, message |-> message])

\* mutant: the scheme is compared with 'bearer' as it was sent
writeUnauthorizedCaseSensitive(w, r) ==
    LET authHeader == HeaderGet(r.Header, HdrAuthorization)
        parts      == SplitN2(authHeader)
        scheme     == IF Len(parts) >= 1 THEN parts[1] ELSE Empty
        challenge  == IF scheme = <<"b","e","a","r","e","r">>
                      THEN "Bearer realm=\"kahook\""
                      ELSE "Basic realm=\"kahook\""
        w1         == [w EXCEPT !.header = HeaderSet(w.header, HdrWWWAuthenticate, challenge)]
    IN  writeError(w1, 401, "unauthorized", "invalid or missing credentials")

\* Server.writeUnauthorized
writeUnauthorized(w, r) ==
    LET authHeader == HeaderGet(r.Header, HdrAuthorization)
        parts      == SplitN2(authHeader)
        scheme     == IF Len(parts) >= 1 THEN ToLower(parts[1]) ELSE Empty
        challenge  == IF scheme = <<"b","e","a","r","e","r">>
                      THEN "Bearer realm=\"kahook\""
                      ELSE "Basic realm=\"kahook\""
        w1         == [w EXCEPT !.header = HeaderSet(w.header, HdrWWWAuthenticate, challenge)]
    IN  writeError(w1, 401, "unauthorized", "invalid or missing credentials")

-----------------------------------------------------------------------------
(* internal/server: the handlers.  A handler maps the request and the writer to
   [next, w]: next = "written" when it has answered, next = "produce" (with the
   arguments in call) when it has reached s.producer.Produce. *)

\* reads counts the io.ReadAll calls the handler made on the request body
Answered(w) == [next |-> "written", w |-> w, probes |-> <<>>, reads |-> 0]

\* a nil KafkaProducer, and one whose IsConnected() returns connected
NilProducer == [nil |-> TRUE]
Producer(connected) == [nil |-> FALSE, IsConnected |-> connected]

\* mutant: HEAD is not allowed
healthHandlerGetOnly(w, r) ==
    IF r.Method # "GET"
    THEN Answered(writeError(w, 405, "method_not_allowed", "only GET is allowed"))
    ELSE Answered(writeJSON(w, 200, [status |-> "healthy"]))

\* Server.healthHandler
healthHandler(w, r) ==
    IF r.Method # "GET" /\ r.Method # "HEAD"
    THEN Answered(writeError(w, 405, "method_not_allowed", "only GET is allowed"))
    ELSE Answered(writeJSON(w, 200, [status |-> "healthy"]))

\* mutant: ready whatever the producer says
readyHandlerAlwaysReady(w, r, producer) ==
    IF r.Method # "GET"
    THEN Answered(writeError(w, 405, "method_not_allowed", "only GET is allowed"))
    ELSE IF producer.nil
    THEN Answered(writeJSON(w, 200, [status |-> "ready"]))
    ELSE [Answered(writeJSON(w, 200, [status |-> "ready"]))
             EXCEPT !.probes = <<producer.IsConnected>>]

\* Server.readyHandler; probes holds what s.producer.IsConnected() returned when the
\* handler called it
readyHandler(w, r, producer) ==
    IF r.Method # "GET"
    THEN Answered(writeError(w, 405, "method_not_allowed", "only GET is allowed"))
    ELSE IF producer.nil
    THEN Answered(writeError(w, 503, "not_ready", "kafka producer not available"))
    ELSE IF ~producer.IsConnected
    THEN [Answered(writeError(w, 503, "not_ready", "kafka producer not available"))
             EXCEPT !.probes = <<FALSE>>]
    ELSE [Answered(writeJSON(w, 200, [status |-> "ready"])) EXCEPT !.probes = <<TRUE>>]

\* Metrics.IncrementRequests, IncrementSuccess, IncrementError, IncrementMessages: each
\* an atomic.Int64.Add(1), one indivisible step
IncrementRequests(m) == [m EXCEPT !.RequestsTotal = @ + 1]

\* mutant: the counter is stored from a value loaded when it was 0
IncrementSuccessFromStaleLoad(m) == [m EXCEPT !.RequestsSuccess = 1]

IncrementSuccess(m) == [m EXCEPT !.RequestsSuccess = @ + 1]
IncrementError(m) == [m EXCEPT !.RequestsError = @ + 1]
IncrementMessages(m) == [m EXCEPT !.MessagesProduced = @ + 1]

\* newMetricsSnapshot: the four counters (uptime and runtime figures left out)
newMetricsSnapshot(m) ==
    [requests_total    |-> m.RequestsTotal,
     requests_success  |-> m.RequestsSuccess,
     requests_error    |-> m.RequestsError,
     messages_produced |-> m.MessagesProduced]

\* mutant: the counters are served to everybody
metricsHandlerOpen(w, r, auth, m) ==
    IF r.Method # "GET"
    THEN Answered(writeError(w, 405, "method_not_allowed", "only GET is allowed"))
    ELSE Answered(writeJSON(w, 200, newMetricsSnapshot(m)))

\* Server.metricsHandler
metricsHandler(w, r, auth, m) ==
    IF r.Method # "GET"
    THEN Answered(writeError(w, 405, "method_not_allowed", "only GET is allowed"))
    ELSE IF ~MultiAuth_Authenticate(auth, r)
    THEN Answered(writeUnauthorized(w, r))
    ELSE Answered(writeJSON(w, 200, newMetricsSnapshot(m)))

Health  == <<"h","e","a","l","t","h">>
Ready   == <<"r","e","a","d","y">>
Metrics == <<"m","e","t","r","i","c","s">>

\* mutant: only the empty topic is invalid
InvalidTopicEmptyOnly(topic) == topic = Empty

\* topic == "" || strings.Contains(topic, "/")
InvalidTopic(topic) == topic = Empty \/ ContainsSlash(topic)

\* mutant: 'metrics' is not in the list of reserved names
ReservedTopicWithoutMetrics(topic) == topic = Health \/ topic = Ready

\* topic == "health" || topic == "ready" || topic == "metrics"
ReservedTopic(topic) == topic = Health \/ topic = Ready \/ topic = Metrics

\* mutant: no body counts as empty
EmptyBodyNever(data) == FALSE

\* len(body) == 0
EmptyBodyRead(data) == BodyLen(data) = 0

\* the headers map built for Produce: every request header that is not internal,
\* with its first value
ForwardedHeaders(r) ==
    [k \in {n \in DOMAIN r.Header : ~isInternalHeader(n)} |-> r.Header[k][1]]

\* mutant: the key is the header's bytes even when there are none
WebhookKeyAlways(r) == Bytes(HeaderGet(r.Header, HdrWebhookKey))

\* the key built for Produce from X-Webhook-Key
WebhookKey(r) ==
    LET webhookKey == HeaderGet(r.Header, HdrWebhookKey)
    IN  IF webhookKey # Empty THEN Bytes(webhookKey) ELSE NilBytes

\* mutant: the body is read and checked first, then the method, the credentials and
\* the topic
webhookHandlerBodyFirst(w, r, auth) ==
    LET rd == ReadBody(r.Body)
    IN  IF rd.err = "MaxBytesError"
        THEN [Answered(writeError(w, 413, "body_too_large",
                                  "request body exceeds maximum size"))
              EXCEPT !.reads = 1]
        ELSE IF rd.err # "nil"
        THEN [Answered(writeError(w, 400, "read_error", "failed to read request body"))
              EXCEPT !.reads = 1]
        ELSE IF r.Method # "POST"
        THEN [Answered(writeError(w, 405, "method_not_allowed", "only POST is allowed"))
              EXCEPT !.reads = 1]
        ELSE IF ~MultiAuth_Authenticate(auth, r)
        THEN [Answered(writeUnauthorized(w, r)) EXCEPT !.reads = 1]
        ELSE IF InvalidTopic(Trim(r.Path))
        THEN [Answered(writeError(w, 400, "invalid_topic",
                                  "topic name must be a single path segment"))
              EXCEPT !.reads = 1]
        ELSE IF ReservedTopic(Trim(r.Path))
        THEN [Answered(writeError(w, 400, "reserved_topic",
                                  "cannot use reserved topic name"))
              EXCEPT !.reads = 1]
        ELSE IF EmptyBodyRead(rd.data)
        THEN [Answered(writeError(w, 400, "empty_body", "request body cannot be empty"))
              EXCEPT !.reads = 1]
        ELSE [next |-> "produce", w |-> w, probes |-> <<>>, reads |-> 1,
              call |-> [topic   |-> Trim(r.Path),
                        key     |-> WebhookKey(r),
                        value   |-> rd.data,
                        headers |-> ForwardedHeaders(r)]]

\* Server.webhookHandler up to the call of s.producer.Produce
webhookHandler(w, r, auth) ==
    IF r.Method # "POST"
    THEN Answered(writeError(w, 405, "method_not_allowed", "only POST is allowed"))
    ELSE IF ~MultiAuth_Authenticate(auth, r)
    THEN Answered(writeUnauthorized(w, r))
    ELSE LET topic == Trim(r.Path)
         IN  IF InvalidTopic(topic)
             THEN Answered(writeError(w, 400, "invalid_topic",
                                      "topic name must be a single path segment"))
             ELSE IF ReservedTopic(topic)
             THEN Answered(writeError(w, 400, "reserved_topic",
                                      "cannot use reserved topic name"))
             ELSE LET rd == ReadBody(r.Body)
                  IN  IF rd.err = "MaxBytesError"
                      THEN [Answered(writeError(w, 413, "body_too_large",
                                                "request body exceeds maximum size"))
                            EXCEPT !.reads = 1]
                      ELSE IF rd.err # "nil"
                      THEN [Answered(writeError(w, 400, "read_error",
                                                "failed to read request body"))
                            EXCEPT !.reads = 1]
                      ELSE IF EmptyBodyRead(rd.data)
                      THEN [Answered(writeError(w, 400, "empty_body",
                                                "request body cannot be empty"))
                            EXCEPT !.reads = 1]
                      ELSE [next |-> "produce", w |-> w, probes |-> <<>>, reads |-> 1,
                            call |-> [topic   |-> topic,
                                      key     |-> WebhookKey(r),
                                      value   |-> rd.data,
                                      headers |-> ForwardedHeaders(r)]]

\* http.ServeMux as NewServer fills it: three exact paths, everything else to "/"
ServeMux(w, r, auth, m, producer) ==
    IF r.Path = <<"/">> \o Health THEN healthHandler(w, r)
    ELSE IF r.Path = <<"/">> \o Ready THEN readyHandler(w, r, producer)
    ELSE IF r.Path = <<"/">> \o Metrics THEN metricsHandler(w, r, auth, m)
    ELSE webhookHandler(w, r, auth)

\* mutant: a new uuid for every request
RequestIDForAlwaysNew(r, n) == <<"u","u","i","d","-", ToString(n)>>

\* RequestIDMiddleware: the inbound X-Request-ID, or a new uuid (the n-th generated)
RequestIDFor(r, n) ==
    LET requestID == HeaderGet(r.Header, HdrRequestID)
    IN  IF requestID = Empty THEN <<"u","u","i","d","-", ToString(n)>> ELSE requestID

-----------------------------------------------------------------------------
(* internal/config: Load = defaults, loadFile, applyEnv, validate *)

\* strings.Split(s, sep) for a one-character separator
RECURSIVE Split(_, _)
Split(s, sep) ==
    LET i == IndexOf(s, sep)
    IN  IF i = 0 THEN <<s>>
        ELSE <<SubSeq(s, 1, i - 1)>> \o Split(SubSeq(s, i + 1, Len(s)), sep)

\* strings.Contains(s, sub)
Contains(s, sub) ==
    \E i \in 1..(Len(s) - Len(sub) + 1) : SubSeq(s, i, i + Len(sub) - 1) = sub

DecimalDigits == <<"0","1","2","3","4","5","6","7","8","9">>
IsDigit(c) == \E i \in 1..10 : DecimalDigits[i] = c
DigitVal(c) == (CHOOSE i \in 1..10 : DecimalDigits[i] = c) - 1

\* the value of a string of decimal digits
RECURSIVE DecimalValue(_)
DecimalValue(s) ==
    IF s = <<>> THEN 0
    ELSE 10 * DecimalValue(SubSeq(s, 1, Len(s) - 1)) + DigitVal(s[Len(s)])

\* strconv.Atoi: an optional sign and at least one decimal digit, nothing else (the
\* values of the model have at most five digits, far below the range of int)
Atoi(s) ==
    LET signed == s # <<>> /\ s[1] \in {"+", "-"}
        digits == IF signed THEN Tail(s) ELSE s
    IN  IF digits = <<>> \/ \E i \in 1..Len(digits) : ~IsDigit(digits[i])
        THEN [n |-> 0, err |-> "syntax"]
        ELSE [n   |-> IF signed /\ s[1] = "-" THEN 0 - DecimalValue(digits)
                      ELSE DecimalValue(digits),
              err |-> "nil"]

TypeNone       == <<"n","o","n","e">>
AcksAll        == <<"a","l","l">>
Snappy         == <<"s","n","a","p","p","y">>
Plain          == <<"P","L","A","I","N">>
Plaintext      == <<"P","L","A","I","N","T","E","X","T">>
LocalBroker    == <<"l","o","c","a","l","h","o","s","t",":","9","0","9","2">>
Placeholder    == <<"R","E","P","L","A","C","E","_","V","I","A">>

\* defaults()
defaults ==
    [Server |-> [Port |-> 8080, ReadTimeout |-> 10, WriteTimeout |-> 10, IdleTimeout |-> 60],
     Auth   |-> [Type |-> TypeNone, Users |-> <<>>, Tokens |-> <<>>],
     Kafka  |-> [Brokers |-> <<LocalBroker>>, SASLUsername |-> <<>>, SASLPassword |-> <<>>,
                 SASLMechanism |-> Plain, SecurityProtocol |-> Plaintext,
                 Acks |-> AcksAll, Retries |-> 3, CompressionType |-> Snappy]]

\* the value the document gives to key k, or the current value v when the document
\* does not name k
FileValue(doc, k, v) == IF k \in DOMAIN doc THEN doc[k] ELSE v

\* yaml.Unmarshal(data, cfg): every field the document names is set, the others keep
\* the value they have
Unmarshal(doc, cfg) ==
    [Server |-> [Port         |-> FileValue(doc, "server.port", cfg.Server.Port),
                 ReadTimeout  |-> FileValue(doc, "server.read_timeout", cfg.Server.ReadTimeout),
                 WriteTimeout |-> FileValue(doc, "server.write_timeout", cfg.Server.WriteTimeout),
                 IdleTimeout  |-> FileValue(doc, "server.idle_timeout", cfg.Server.IdleTimeout)],
     Auth   |-> [Type   |-> FileValue(doc, "auth.type", cfg.Auth.Type),
                 Users  |-> FileValue(doc, "auth.users", cfg.Auth.Users),
                 Tokens |-> FileValue(doc, "auth.tokens", cfg.Auth.Tokens)],
     Kafka  |-> [Brokers          |-> FileValue(doc, "kafka.brokers", cfg.Kafka.Brokers),
                 SASLUsername     |-> FileValue(doc, "kafka.sasl_username", cfg.Kafka.SASLUsername),
                 SASLPassword     |-> FileValue(doc, "kafka.sasl_password", cfg.Kafka.SASLPassword),
                 SASLMechanism    |-> FileValue(doc, "kafka.sasl_mechanism", cfg.Kafka.SASLMechanism),
                 SecurityProtocol |-> FileValue(doc, "kafka.security_protocol",
                                                cfg.Kafka.SecurityProtocol),
                 Acks             |-> FileValue(doc, "kafka.acks", cfg.Kafka.Acks),
                 Retries          |-> FileValue(doc, "kafka.retries", cfg.Kafka.Retries),
                 CompressionType  |-> FileValue(doc, "kafka.compression_type",
                                                cfg.Kafka.CompressionType)]]

\* loadFile: no file found leaves cfg alone; a file that cannot be read or parsed is an
\* error; otherwise the document is unmarshalled over cfg
loadFile(cfg, file) ==
    IF file.kind = "none" THEN [cfg |-> cfg, err |-> "nil"]
    ELSE IF file.kind = "unreadable" THEN [cfg |-> cfg, err |-> "error reading config file"]
    ELSE IF file.kind = "malformed" THEN [cfg |-> cfg, err |-> "error parsing config file"]
    ELSE [cfg |-> Unmarshal(file.doc, cfg), err |-> "nil"]

\* os.Getenv: the value of the variable, "" when it is not set
Getenv(environ, name) == IF name \in DOMAIN environ THEN environ[name] ELSE <<>>

\* if v := os.Getenv(name); v != "" { field = v }
EnvString(environ, name, current) ==
    IF Getenv(environ, name) # <<>> THEN Getenv(environ, name) ELSE current

\* if v := os.Getenv(name); v != "" { if n, err := strconv.Atoi(v); err == nil { field = n } }
EnvInt(environ, name, current) ==
    IF Getenv(environ, name) # <<>> /\ Atoi(Getenv(environ, name)).err = "nil"
    THEN Atoi(Getenv(environ, name)).n
    ELSE current

\* applyEnv
applyEnv(cfg, environ) ==
    [Server |-> [Port         |-> EnvInt(environ, "SERVER_PORT", cfg.Server.Port),
                 ReadTimeout  |-> EnvInt(environ, "SERVER_READ_TIMEOUT", cfg.Server.ReadTimeout),
                 WriteTimeout |-> EnvInt(environ, "SERVER_WRITE_TIMEOUT", cfg.Server.WriteTimeout),
                 IdleTimeout  |-> EnvInt(environ, "SERVER_IDLE_TIMEOUT", cfg.Server.IdleTimeout)],
     Auth   |-> [Type   |-> EnvString(environ, "AUTH_TYPE", cfg.Auth.Type),
                 Users  |-> cfg.Auth.Users,
                 Tokens |-> cfg.Auth.Tokens],
     Kafka  |-> [Brokers          |-> IF Getenv(environ, "KAFKA_BROKERS") # <<>>
                                      THEN Split(Getenv(environ, "KAFKA_BROKERS"), ",")
                                      ELSE cfg.Kafka.Brokers,
                 SASLUsername     |-> EnvString(environ, "KAFKA_SASL_USERNAME",
                                                cfg.Kafka.SASLUsername),
                 SASLPassword     |-> EnvString(environ, "KAFKA_SASL_PASSWORD",
                                                cfg.Kafka.SASLPassword),
                 SASLMechanism    |-> EnvString(environ, "KAFKA_SASL_MECHANISM",
                                                cfg.Kafka.SASLMechanism),
                 SecurityProtocol |-> EnvString(environ, "KAFKA_SECURITY_PROTOCOL",
                                                cfg.Kafka.SecurityProtocol),
                 Acks             |-> EnvString(environ, "KAFKA_ACKS", cfg.Kafka.Acks),
                 Retries          |-> EnvInt(environ, "KAFKA_RETRIES", cfg.Kafka.Retries),
                 CompressionType  |-> EnvString(environ, "KAFKA_COMPRESSION_TYPE",
                                                cfg.Kafka.CompressionType)]]

\* mutant: auth.type is compared as written, without strings.ToLower
validateCaseSensitive(cfg) ==
    IF cfg.Server.Port < 1 \/ cfg.Server.Port > 65535 THEN "invalid server port"
    ELSE IF Len(cfg.Kafka.Brokers) = 0 THEN "kafka brokers cannot be empty"
    ELSE IF \E i \in 1..Len(cfg.Kafka.Brokers) : Contains(cfg.Kafka.Brokers[i], Placeholder)
    THEN "kafka broker looks like an un-replaced placeholder"
    ELSE IF cfg.Auth.Type = <<"b","a","s","i","c">> /\ Len(cfg.Auth.Users) = 0
    THEN "auth.type is 'basic' but no users are configured"
    ELSE IF cfg.Auth.Type = <<"b","e","a","r","e","r">> /\ Len(cfg.Auth.Tokens) = 0
    THEN "auth.type is 'bearer' but no tokens are configured"
    ELSE "nil"

\* validate: the error it returns, "nil" for none
validate(cfg) ==
    IF cfg.Server.Port < 1 \/ cfg.Server.Port > 65535 THEN "invalid server port"
    ELSE IF Len(cfg.Kafka.Brokers) = 0 THEN "kafka brokers cannot be empty"
    ELSE IF \E i \in 1..Len(cfg.Kafka.Brokers) : Contains(cfg.Kafka.Brokers[i], Placeholder)
    THEN "kafka broker looks like an un-replaced placeholder"
    ELSE IF ToLower(cfg.Auth.Type) = <<"b","a","s","i","c">> /\ Len(cfg.Auth.Users) = 0
    THEN "auth.type is 'basic' but no users are configured"
    ELSE IF ToLower(cfg.Auth.Type) = <<"b","e","a","r","e","r">> /\ Len(cfg.Auth.Tokens) = 0
    THEN "auth.type is 'bearer' but no tokens are configured"
    ELSE "nil"

\* a nil *Config
NilConfig == [nil |-> TRUE]

\* mutant: the environment is applied to the defaults and the file is read over it
LoadFileOverEnv(file, environ) ==
    LET lf == loadFile(applyEnv(defaults, environ), file)
    IN  IF lf.err # "nil" THEN [cfg |-> NilConfig, err |-> lf.err]
        ELSE IF validate(lf.cfg) # "nil" THEN [cfg |-> NilConfig, err |-> validate(lf.cfg)]
        ELSE [cfg |-> lf.cfg, err |-> "nil"]

\* Load: cfg and err as returned
Load(file, environ) ==
    LET lf  == loadFile(defaults, file)
        cfg == applyEnv(lf.cfg, environ)
    IN  IF lf.err # "nil" THEN [cfg |-> NilConfig, err |-> lf.err]
        ELSE IF validate(cfg) # "nil" THEN [cfg |-> NilConfig, err |-> validate(cfg)]
        ELSE [cfg |-> cfg, err |-> "nil"]

-----------------------------------------------------------------------------
(* internal/kafka *)

\* mutant: the message is built in one buffer that every call writes its value to, so
\* that a call made while another is under way publishes the other's value
KafkaMessageSharedBuffer(call) ==
    LET others == {o \in DOMAIN conn :
                      /\ conn[o].pc \in {"produce", "waiting"}
                      /\ conn[o].calls # <<>>
                      /\ conn[o].calls[Len(conn[o].calls)] # call}
    IN  [Topic   |-> call.topic,
         Key     |-> call.key,
         Value   |-> IF others = {} THEN call.value
                     ELSE conn[CHOOSE o \in others : TRUE].calls[1].value,
         Headers |-> {[Key |-> k, Value |-> call.headers[k]] : k \in DOMAIN call.headers}]

\* the kafka.Message Producer.Produce builds; the order of its headers is that of a
\* map iteration, so they are kept as a set
KafkaMessage(call) ==
    [Topic   |-> call.topic,
     Key     |-> call.key,
     Value   |-> call.value,
     Headers |-> {[Key |-> k, Value |-> call.headers[k]] : k \in DOMAIN call.headers}]

NoMessage == [none |-> TRUE]

\* what ends a call of Producer.Produce: an event on the call's delivery channel (the
\* message itself, with its delivery error or none; a kafka.Error; anything else), the
\* end of the context, or the client library refusing the message
MessageEvent(e) == [type |-> "*kafka.Message", Error |-> e]
ErrorEvent      == [type |-> "kafka.Error", Error |-> "transport failure"]
OtherEvent      == [type |-> "kafka.Stats", Error |-> "nil"]
DoneEvent(cause) == [type |-> "ctx.Done", Error |-> cause]
RefusedEvent    == [type |-> "enqueue", Error |-> "queue full"]
NoEvent         == [type |-> "none", Error |-> "nil"]

\* The client library and the broker are not part of the process.  A run that does not
\* observe them leaves outside at Unobserved; a run that does starts from NothingSent
\* and follows each message by the number of its request: queued in the library by
\* p.producer.Produce, then stored in the topic's log by the broker or given up by the
\* library, and reported on the delivery channel of its call.
Unobserved  == [observed |-> FALSE]
NothingSent == [observed |-> TRUE, queue |-> {}, log |-> {}, abandoned |-> {}, accepted |-> 0]

\* p.producer.Produce(msg, kafkaChan) returned nil: message n is in the library's queue
Queued(o, n) == IF o.observed THEN [o EXCEPT !.queue = @ \cup {n}] ELSE o

\* the library can send ev on the delivery channel of message n: a report without error
\* once the broker has stored the message, a report with a delivery error while it has
\* not; a kafka.Error or another event at any time
CanReport(o, n, ev) ==
    o.observed =>
        (ev.type = "*kafka.Message" =>
            IF ev.Error = "nil" THEN n \in o.log ELSE n \in o.queue)

\* the library after sending ev: a message reported with a delivery error has left the
\* queue for good
Reported(o, n, ev) ==
    IF o.observed /\ ev.type = "*kafka.Message" /\ ev.Error # "nil"
    THEN [o EXCEPT !.queue = @ \ {n}]
    ELSE o

\* Produce stopped waiting for the report of message n because its context ended; it
\* takes nothing back from the library
Abandoned(o, n) == IF o.observed THEN [o EXCEPT !.abandoned = @ \cup {n}] ELSE o

\* the client has the response w
Responded(o, w) ==
    IF o.observed /\ w.codes = <<202>> THEN [o EXCEPT !.accepted = @ + 1] ELSE o

\* mutant: a delivery report is taken for a success whatever error it carries
Produce_ReceivedIgnoresError(ev) ==
    IF ev.type = "*kafka.Message" THEN "nil"
    ELSE IF ev.type = "kafka.Error" THEN "kafka error"
    ELSE "unexpected event type"

\* Producer.Produce, the type switch on the event its select received from kafkaChan
Produce_Received(ev) ==
    IF ev.type = "*kafka.Message"
    THEN IF ev.Error # "nil" THEN "message delivery failed" ELSE "nil"
    ELSE IF ev.type = "kafka.Error" THEN "kafka error"
    ELSE "unexpected event type"

-----------------------------------------------------------------------------
(* internal/server: how webhookHandler goes on when Produce has returned.  st is
   [cn, m]: the connection's record and the counters. *)

\* mutant: a failed Produce is tried once more before the error is reported
ProduceFailedRetry(st) ==
    IF Len(st.cn.calls) < 2
    THEN [st EXCEPT !.cn.pc = "produce", !.cn.calls = Append(st.cn.calls, st.cn.calls[1])]
    ELSE [st EXCEPT !.cn.pc = "written",
                    !.cn.w = writeError(st.cn.w, 500, "produce_error",
                                        "failed to send message to kafka")]

\* mutant: an error of Produce is answered 504 'timeout' when the context ended
ProduceFailedAs504(st) ==
    [st EXCEPT !.cn.pc = "written",
               !.cn.w = IF st.cn.err \in {"deadline exceeded", "canceled"}
                        THEN writeError(st.cn.w, 504, "timeout", "kafka did not answer")
                        ELSE writeError(st.cn.w, 500, "produce_error",
                                        "failed to send message to kafka")]

\* mutant: nothing is written for a client that has gone away
ProduceFailedSilentOnCancel(st) ==
    IF st.cn.err = "canceled"
    THEN [st EXCEPT !.cn.pc = "written"]
    ELSE [st EXCEPT !.cn.pc = "written",
                    !.cn.w = writeError(st.cn.w, 500, "produce_error",
                                        "failed to send message to kafka")]

\* mutant: every Produce call that has returned is counted as a message produced
ProduceFailedCountsMessage(st) ==
    [st EXCEPT !.m = IncrementMessages(@),
               !.cn.pc = "written",
               !.cn.w = writeError(st.cn.w, 500, "produce_error",
                                   "failed to send message to kafka")]

\* Produce returned an error: log it, answer 500 produce_error, return
ProduceFailed(st) ==
    [st EXCEPT !.cn.pc = "written",
               !.cn.w = writeError(st.cn.w, 500, "produce_error",
                                   "failed to send message to kafka")]

\* mutant: the 202 body reports the path without its leading '/' only
ProduceSucceededReportsPath(st) ==
    [st EXCEPT !.m.MessagesProduced = @ + 1,
               !.cn.pc = "written",
               !.cn.w = writeJSON(st.cn.w, 202,
                                  [status     |-> "accepted",
                                   topic      |-> SubSeq(st.cn.req.Path, 2, Len(st.cn.req.Path)),
                                   request_id |-> HeaderGet(st.cn.w.header, HdrRequestID)])]

\* Produce returned nil: IncrementMessages, answer 202 with the topic and the request id
ProduceSucceeded(st) ==
    [st EXCEPT !.m = IncrementMessages(@),
               !.cn.pc = "written",
               !.cn.w = writeJSON(st.cn.w, 202,
                                  [status     |-> "accepted",
                                   topic      |-> st.cn.calls[Len(st.cn.calls)].topic,
                                   request_id |-> HeaderGet(st.cn.w.header, HdrRequestID)])]

\* the outcome of Producer.Produce as the handler sees it: nil or an error; the
\* deferred cancel() releases produceCtx and its timer when the handler returns
ProduceReturned(st, err) ==
    IF err = "nil"
    THEN ProduceSucceeded([st EXCEPT !.cn.err = err, !.cn.elapsed = 0])
    ELSE ProduceFailed([st EXCEPT !.cn.err = err, !.cn.elapsed = 0])

-----------------------------------------------------------------------------
(* The values the runs draw their inputs from *)

Tok1 == <<"t","1">>
Tok2 == <<"t","2">>
Tok3 == <<"t","3">>

\* tokens a configuration may list
TokenValues == {Tok1, Tok2}

\* every token list of at most MaxTokens entries, in every order, repeats included
TokenLists == UNION {[1..n -> TokenValues] : n \in 0..MaxTokens}

UserA == <<"a">>
UserB == <<"b">>
PassP == <<"p">>
PassQ == <<"q">>

\* username -> password maps a configuration may hold
UserMaps == {EmptyMap, UserA :> PassP, (UserA :> PassP) @@ (UserB :> PassQ)}

Bearer == <<"B","e","a","r","e","r">>
Basic  == <<"B","a","s","i","c">>
Digest == <<"D","i","g","e","s","t">>

\* scheme words as a client may spell them
BearerWords == {Bearer, <<"b","E","A","R","E","R">>}
BasicWords  == {Basic, <<"b","A","S","I","C">>}

\* what follows the scheme word: nothing, or one space
Separators == {Empty, <<" ">>}

\* bearer credentials: configured tokens, an unknown one, none, one with a leading space
TokenTexts == {Tok1, Tok2, Tok3, Empty, <<" ","t","1">>}

\* basic credentials, base64 texts:
\*   YTpw = a:p   YTpx = a:q   Yjpx = b:q   Yzpw = c:p   YTpwOnE= = a:p:q
\*   YQ== = a (no colon)   YTpw= (bad length)   Y!pw (not base64)
B64Texts ==
    {<<"Y","T","p","w">>, <<"Y","T","p","x">>, <<"Y","j","p","x">>, <<"Y","z","p","w">>,
     <<"Y","T","p","w","O","n","E","=">>,
     <<"Y","Q","=","=">>, <<"Y","T","p","w","=">>, <<"Y","!","p","w">>}

\* Authorization header values
AuthValues ==
    {w \o s \o p : w \in BearerWords, s \in Separators, p \in TokenTexts}
    \cup {w \o s \o p : w \in BasicWords, s \in Separators, p \in B64Texts}
    \cup {w \o s \o p : w \in {Digest, Empty}, s \in Separators,
                         p \in {Tok1, <<"Y","T","p","w">>}}
    \cup {Bearer \o <<" ">> \o <<"Y","T","p","w">>, Basic \o <<" ">> \o Tok1, Empty}

\* a request that carries the Authorization header value v
WithAuthorization(v) == [Header |-> HdrAuthorization :> <<v>>]

\* a request without an Authorization header
NoAuthorization == [Header |-> EmptyMap]

\* requests handed to Authenticate
AuthRequests == {NoAuthorization} \cup {WithAuthorization(v) : v \in AuthValues}

\* a request: method, URL path, headers, body
Request(method, path, header, body) ==
    [Method |-> method, Path |-> path, Header |-> header, Body |-> body]

Slash == <<"/">>
Events == <<"e","v","e","n","t","s">>

\* URL paths that reach the webhook handler
WebhookPaths ==
    {Slash \o Events, Slash \o Events \o Slash, Slash \o Slash \o Events,
     Slash \o <<"a">> \o Slash \o <<"b">>, Slash,
     Slash \o Health \o Slash, Slash \o Slash \o Ready, Slash \o Metrics \o Slash}

\* a topic with a dot in its name
DottedTopic == <<"a",".","b">>

\* the paths of the operational endpoints, and one topic
EndpointPaths == {Slash \o Health, Slash \o Ready, Slash \o Metrics, Slash \o Events}

EmptyBody  == [head |-> Empty, pad |-> 0, fail |-> FALSE]
SmallBody  == [head |-> <<"{","\"","a","\"",":","1","}">>, pad |-> 0, fail |-> FALSE]
MaxBody    == [head |-> <<"x">>, pad |-> maxBodyBytes - 1, fail |-> FALSE]
OverBody   == [head |-> <<"x">>, pad |-> maxBodyBytes, fail |-> FALSE]
BrokenBody == [head |-> <<"x">>, pad |-> 0, fail |-> TRUE]
Bodies     == {EmptyBody, SmallBody, MaxBody, OverBody, BrokenBody}

\* headers besides Authorization
PlainHeaders == EmptyMap
RichHeaders ==
    (HdrContentType :> << <<"j","s","o","n">> >>)
    @@ (HdrUserAgent :> << <<"c","u","r","l">> >>)
    @@ (HdrCustom :> << <<"v","1">>, <<"v","2">> >>)
    @@ (HdrWebhookKey :> << <<"k","1">> >>)
    @@ (<<"A","C","C","E","P","T">> :> << <<"*">> >>)
    @@ (<<"h","o","s","t">> :> << <<"h","1">> >>)
TracedHeaders ==
    (HdrRequestID :> << <<"r","1">> >>) @@ (HdrWebhookKey :> << Empty >>)
OtherHeaders == {PlainHeaders, RichHeaders, TracedHeaders}

\* Authorization as the server's clients send it: none, a configured token, an unknown
\* token, the credentials a:p
NoAuthValue == <<"none">>
ServerAuthValues ==
    {NoAuthValue, Bearer \o <<" ">> \o Tok1, <<"b","E","A","R","E","R">> \o <<" ">> \o Tok3,
     Basic \o <<" ">> \o <<"Y","T","p","w">>}

\* Authorization values that name no usable credential: an unknown scheme, the word
\* bearer alone, a leading space, two spaces after Bearer
OddAuthValues ==
    {Digest \o <<" ">> \o Tok1, <<"b","e","a","r","e","r">>,
     <<" ">> \o Bearer \o <<" ">> \o Tok1, Bearer \o <<" ", " ">> \o Tok1}

HeadersWith(other, auth) ==
    IF auth = NoAuthValue THEN other ELSE (HdrAuthorization :> <<auth>>) @@ other

\* the requests clients send
ServerRequests ==
    {Request("POST", p, HeadersWith(o, a), b) :
        p \in WebhookPaths, o \in OtherHeaders, a \in ServerAuthValues, b \in Bodies}
    \cup {Request(m, p, HeadersWith(PlainHeaders, a), EmptyBody) :
        m \in {"GET", "HEAD", "POST"}, p \in EndpointPaths, a \in ServerAuthValues}
    \cup {Request("POST", Slash \o Events, HeadersWith(PlainHeaders, a), SmallBody) :
        a \in OddAuthValues}
    \cup {Request("GET", Slash \o Metrics, HeadersWith(PlainHeaders, a), EmptyBody) :
        a \in OddAuthValues}
    \cup {Request("POST", Slash \o DottedTopic, HeadersWith(PlainHeaders, a), SmallBody) :
        a \in ServerAuthValues}

\* the credentials main hands to NewMultiAuth: users (a map, maybe empty) and tokens
ServerCredentials ==
    {[users |-> EmptyMap, tokens |-> <<>>],
     [users |-> UserA :> PassP, tokens |-> <<>>],
     [users |-> EmptyMap, tokens |-> <<Tok1, Tok2>>],
     [users |-> UserA :> PassP, tokens |-> <<Tok1, Tok2>>]}

\* the connections served at the same time
Conns == {"c1"}

-----------------------------------------------------------------------------
(* internal/auth: the strategies built from a caller's map and slice, called,
   while the caller goes on using its map and slice *)

NoCall == [strategy |-> "none"]

\* the strategies as built from the users map (reference) and the tokens slice
Construct(usersRef, users, tokens) ==
    /\ callerUsers = users
    /\ callerTokens = tokens
    /\ built = [usersRef |-> usersRef, users |-> users, tokens |-> tokens]
    /\ basicAuth = NewBasicAuth(usersRef)
    /\ bearerAuth = NewBearerAuth(tokens)
    /\ multiAuth = NewMultiAuth(usersRef, tokens)
    /\ lastCall = NoCall

\* a connection with no request on it
Idle == [pc |-> "idle"]

\* the strategies and the server are built by a caller other than main (the tests build
\* them directly)
NoMain == [pc |-> "none"]

\* NewServer, NewMetrics: no request yet, the counters at zero
ServerIdle ==
    /\ conn = [c \in Conns |-> Idle]
    /\ metrics = [RequestsTotal |-> 0, RequestsSuccess |-> 0, RequestsError |-> 0,
                  MessagesProduced |-> 0]
    /\ served = 0
    /\ outside = Unobserved

InitAuth ==
    /\ \E tokens \in TokenLists :
          \/ \E users \in UserMaps : Construct(CallerUsersRef, users, tokens)
          \/ Construct(Nil, EmptyMap, tokens)
    /\ ServerIdle
    /\ main = NoMain

\* a := BasicAuth.Authenticate(r)
CallBasic(r) ==
    /\ lastCall = NoCall
    /\ lastCall' = [strategy |-> "basic", request |-> r,
                    result |-> BasicAuth_Authenticate(basicAuth, r), compares |-> 0]
    /\ basicAuth' = BasicAuth_After(basicAuth, r)
    /\ UNCHANGED <<callerUsers, callerTokens, built, bearerAuth, multiAuth>>
    /\ UNCHANGED serverVars
    /\ UNCHANGED mainVars

\* a := BearerAuth.Authenticate(r)
CallBearer(r) ==
    /\ lastCall = NoCall
    /\ lastCall' = [strategy |-> "bearer", request |-> r,
                    result |-> BearerAuth_Authenticate(bearerAuth, r),
                    compares |-> BearerAuth_Run(bearerAuth, r).compares]
    /\ bearerAuth' = BearerAuth_After(bearerAuth, r)
    /\ UNCHANGED <<callerUsers, callerTokens, built, basicAuth, multiAuth>>
    /\ UNCHANGED serverVars
    /\ UNCHANGED mainVars

\* a := MultiAuth.Authenticate(r)
CallMulti(r) ==
    /\ lastCall = NoCall
    /\ lastCall' = [strategy |-> "multi", request |-> r,
                    result |-> MultiAuth_Authenticate(multiAuth, r), compares |-> 0]
    /\ multiAuth' = MultiAuth_After(multiAuth, r)
    /\ UNCHANGED <<callerUsers, callerTokens, built, basicAuth, bearerAuth>>
    /\ UNCHANGED serverVars
    /\ UNCHANGED mainVars

\* the caller has taken the result of the call
CallReturn ==
    /\ lastCall # NoCall
    /\ lastCall' = NoCall
    /\ UNCHANGED <<callerUsers, callerTokens, built, basicAuth, bearerAuth, multiAuth>>
    /\ UNCHANGED serverVars
    /\ UNCHANGED mainVars

\* the caller writes users[u] = p into the map it built the strategies from
CallerSetUser(u, p) ==
    /\ lastCall = NoCall
    /\ built.usersRef # Nil
    /\ callerUsers' = MapSet(callerUsers, u, p)
    /\ UNCHANGED <<callerTokens, built, basicAuth, bearerAuth, multiAuth, lastCall>>
    /\ UNCHANGED serverVars
    /\ UNCHANGED mainVars

\* the caller deletes users[u]
CallerDeleteUser(u) ==
    /\ lastCall = NoCall
    /\ built.usersRef # Nil
    /\ u \in DOMAIN callerUsers
    /\ callerUsers' = MapDelete(callerUsers, u)
    /\ UNCHANGED <<callerTokens, built, basicAuth, bearerAuth, multiAuth, lastCall>>
    /\ UNCHANGED serverVars
    /\ UNCHANGED mainVars

\* the caller writes tokens[i] = t into the slice it built the strategies from
CallerSetToken(i, t) ==
    /\ lastCall = NoCall
    /\ i \in 1..Len(callerTokens)
    /\ callerTokens' = [callerTokens EXCEPT ![i] = t]
    /\ UNCHANGED <<callerUsers, built, basicAuth, bearerAuth, multiAuth, lastCall>>
    /\ UNCHANGED serverVars
    /\ UNCHANGED mainVars

NextAuth ==
    \/ \E r \in AuthRequests : CallBasic(r)
    \/ \E r \in AuthRequests : CallBearer(r)
    \/ \E r \in AuthRequests : CallMulti(r)
    \/ CallReturn
    \/ \E u \in {UserA, UserB} : CallerSetUser(u, PassQ)
    \/ CallerDeleteUser(UserA)
    \/ \E i \in 1..MaxTokens : CallerSetToken(i, Tok3)

SpecAuth == InitAuth /\ [][NextAuth]_vars

-----------------------------------------------------------------------------
(* The server: main builds the authenticator and the server; requests arrive, go
   through RequestIDMiddleware, loggingMiddleware and the mux to a handler; the
   webhook handler publishes through Producer.Produce and waits for the outcome. *)

Init ==
    /\ \E cred \in ServerCredentials : Construct(CallerUsersRef, cred.users, cred.tokens)
    /\ ServerIdle
    /\ main = NoMain

\* a request arrives on an idle connection: RequestIDMiddleware sets X-Request-ID on the
\* response, loggingMiddleware counts the request and wraps the writer
Accept(c, r) ==
    /\ conn[c].pc = "idle"
    /\ served < MaxRequests
    /\ served' = served + 1
    /\ metrics' = IncrementRequests(metrics)
    /\ conn' = [conn EXCEPT ![c] =
                    [pc    |-> "handler",
                     req   |-> r,
                     w     |-> NewResponseWriter(RequestIDFor(r, served + 1)),
                     calls |-> <<>>,
                     msg   |-> NoMessage,
                     err   |-> "none",
                     event |-> NoEvent,
                     n     |-> served + 1,
                     probes  |-> <<>>,
                     reads   |-> 0,
                     elapsed |-> 0]]
    /\ UNCHANGED outside
    /\ UNCHANGED authVars
    /\ UNCHANGED mainVars

\* the mux runs the handler: it answers, or (webhook) it reaches s.producer.Produce
Serve(c, connected) ==
    /\ conn[c].pc = "handler"
    /\ LET res == ServeMux(conn[c].w, conn[c].req, multiAuth, metrics, Producer(connected))
       IN  conn' = [conn EXCEPT ![c] =
                       IF res.next = "written"
                       THEN [@ EXCEPT !.pc = "written", !.w = res.w, !.probes = res.probes,
                                      !.reads = res.reads]
                       ELSE [@ EXCEPT !.pc = "produce", !.calls = Append(@, res.call),
                                      !.reads = res.reads, !.elapsed = 0]]
    /\ UNCHANGED <<metrics, served, outside>>
    /\ UNCHANGED authVars
    /\ UNCHANGED mainVars

\* mutant: produceCtx carries no deadline
DeadlineNever(cn) == FALSE

\* produceCtx, made by context.WithTimeout(r.Context(), produceTimeout) when the
\* publish step started, has reached its deadline
DeadlinePassed(cn) == cn.elapsed >= produceTimeout

\* Producer.Produce hands the message to the client library, which queues it: Produce
\* goes on to wait for the delivery report
Enqueue(c) ==
    /\ conn[c].pc = "produce"
    /\ conn' = [conn EXCEPT ![c] =
                   [@ EXCEPT !.pc = "waiting",
                             !.msg = KafkaMessage(conn[c].calls[Len(conn[c].calls)])]]
    /\ outside' = Queued(outside, conn[c].n)
    /\ UNCHANGED <<metrics, served>>
    /\ UNCHANGED authVars
    /\ UNCHANGED mainVars

\* the client library refuses the message: Produce returns the error at once
EnqueueFails(c) ==
    /\ conn[c].pc = "produce"
    /\ LET st == ProduceReturned([cn |-> conn[c], m |-> metrics], "failed to produce message")
       IN  /\ conn' = [conn EXCEPT ![c] = [st.cn EXCEPT !.event = RefusedEvent]]
           /\ metrics' = st.m
    /\ UNCHANGED <<served, outside>>
    /\ UNCHANGED authVars
    /\ UNCHANGED mainVars

\* an event arrives on the delivery channel: the message delivered, the message with a
\* delivery error, a kafka.Error, or an event of another type
DeliveryEvent(c, ev) ==
    /\ conn[c].pc = "waiting"
    /\ CanReport(outside, conn[c].n, ev)
    /\ LET st == ProduceReturned([cn |-> conn[c], m |-> metrics], Produce_Received(ev))
       IN  /\ conn' = [conn EXCEPT ![c] = [st.cn EXCEPT !.event = ev]]
           /\ metrics' = st.m
    /\ outside' = Reported(outside, conn[c].n, ev)
    /\ UNCHANGED served
    /\ UNCHANGED authVars
    /\ UNCHANGED mainVars

\* a second passes while Produce runs; the timer of produceCtx fires at its deadline,
\* so no further second passes once produceTimeout is reached
Tick(c) ==
    /\ conn[c].pc \in {"produce", "waiting"}
    /\ conn[c].elapsed < produceTimeout
    /\ conn' = [conn EXCEPT ![c].elapsed = @ + 1]
    /\ UNCHANGED <<metrics, served, outside>>
    /\ UNCHANGED authVars
    /\ UNCHANGED mainVars

\* ctx.Done() is closed while Produce is parked in its select with no delivery report:
\* the request's context was cancelled, or the deadline of produceCtx passed
ContextDone(c, cause) ==
    /\ conn[c].pc = "waiting"
    /\ cause = "deadline exceeded" => DeadlinePassed(conn[c])
    /\ LET st == ProduceReturned([cn |-> conn[c], m |-> metrics], cause)
       IN  /\ conn' = [conn EXCEPT ![c] = [st.cn EXCEPT !.event = DoneEvent(cause)]]
           /\ metrics' = st.m
    /\ outside' = Abandoned(outside, conn[c].n)
    /\ UNCHANGED served
    /\ UNCHANGED authVars
    /\ UNCHANGED mainVars

\* mutant: only the server's own failures count as errors
CountOutcomeServerErrorsOnly(m, statusCode) ==
    IF statusCode >= 500 THEN IncrementError(m) ELSE IncrementSuccess(m)

\* loggingMiddleware, after the handler has returned: the status the wrapper recorded
\* decides which counter the request goes to
CountOutcome(m, statusCode) ==
    IF statusCode >= 400 THEN IncrementError(m) ELSE IncrementSuccess(m)

\* the handler has returned: loggingMiddleware counts the outcome, the connection is
\* free for the next request
Finish(c) ==
    /\ conn[c].pc = "written"
    /\ metrics' = CountOutcome(metrics, conn[c].w.statusCode)
    /\ outside' = Responded(outside, conn[c].w)
    /\ conn' = [conn EXCEPT ![c] = Idle]
    /\ UNCHANGED served
    /\ UNCHANGED authVars
    /\ UNCHANGED mainVars

DeliveryEvents == {MessageEvent("nil"), MessageEvent("message timed out"), ErrorEvent, OtherEvent}
ContextErrors  == {"deadline exceeded", "canceled"}

Next ==
    \/ \E c \in Conns, r \in ServerRequests : Accept(c, r)
    \/ \E c \in Conns, connected \in BOOLEAN : Serve(c, connected)
    \/ \E c \in Conns : Enqueue(c)
    \/ \E c \in Conns : EnqueueFails(c)
    \/ \E c \in Conns, ev \in DeliveryEvents : DeliveryEvent(c, ev)
    \/ \E c \in Conns : Tick(c)
    \/ \E c \in Conns, cause \in ContextErrors : ContextDone(c, cause)
    \/ \E c \in Conns : Finish(c)

Spec == Init /\ [][Next]_vars

\* Two connections served at the same time: their handlers' steps interleave in every
\* order, on one Server and one Metrics.
ConnPair == {"c1", "c2"}

\* the requests sent on the two connections: a webhook, a webhook that brings its
\* X-Request-ID and a token, a webhook to another topic with a key, custom headers and
\* another body, the three endpoints, and an X-Request-ID header left empty
ConcurrentRequests ==
    {Request("POST", Slash \o Events, PlainHeaders, SmallBody),
     Request("POST", Slash \o Events,
             HeadersWith(HdrRequestID :> << <<"r","1">> >>, Bearer \o <<" ">> \o Tok1), SmallBody),
     Request("POST", Slash \o DottedTopic,
             HeadersWith(RichHeaders, Bearer \o <<" ">> \o Tok1), MaxBody),
     Request("GET", Slash \o Health, HdrRequestID :> << Empty >>, EmptyBody),
     Request("GET", Slash \o Ready, PlainHeaders, EmptyBody),
     Request("GET", Slash \o Metrics, HeadersWith(PlainHeaders, Bearer \o <<" ">> \o Tok1),
             EmptyBody)}

ConcurrentCredentials ==
    {[users |-> EmptyMap, tokens |-> <<>>], [users |-> EmptyMap, tokens |-> <<Tok1>>]}

InitConcurrent ==
    /\ \E cred \in ConcurrentCredentials :
          Construct(CallerUsersRef, cred.users, cred.tokens)
    /\ conn = [c \in ConnPair |-> Idle]
    /\ metrics = [RequestsTotal |-> 0, RequestsSuccess |-> 0, RequestsError |-> 0,
                  MessagesProduced |-> 0]
    /\ served = 0
    /\ outside = Unobserved
    /\ main = NoMain

NextConcurrent ==
    \/ \E c \in ConnPair, r \in ConcurrentRequests : Accept(c, r)
    \/ \E c \in ConnPair, connected \in BOOLEAN : Serve(c, connected)
    \/ \E c \in ConnPair : Enqueue(c)
    \/ \E c \in ConnPair : EnqueueFails(c)
    \/ \E c \in ConnPair, ev \in DeliveryEvents : DeliveryEvent(c, ev)
    \/ \E c \in ConnPair : Tick(c)
    \/ \E c \in ConnPair, cause \in ContextErrors : ContextDone(c, cause)
    \/ \E c \in ConnPair : Finish(c)

SpecConcurrent == InitConcurrent /\ [][NextConcurrent]_vars

\* Time passes, and the runtime fires the timer of produceCtx at its deadline; nothing
\* is assumed of the broker or of the client.
FairSpec ==
    /\ Spec
    /\ \A c \in Conns : WF_vars(Tick(c))
    /\ \A c \in Conns : WF_vars(ContextDone(c, "deadline exceeded"))

\* The handler's goroutine runs: the mux and the handler take their steps and the body
\* read ends (http.Server bounds it by the read timeout), the client library's Produce
\* returns without blocking, time passes and the timer of produceCtx fires.  Nothing
\* is assumed of the broker or of the client.  Serve(c, _) is enabled exactly while
\* the connection is in the handler and every Serve step ends that, so its weak
\* fairness is written as: the connection is again and again not in the handler.
FairHandlers ==
    /\ Spec
    /\ \A c \in Conns : []<>(conn[c].pc # "handler")
    /\ \A c \in Conns : WF_vars(Enqueue(c) \/ EnqueueFails(c))
    /\ \A c \in Conns : WF_vars(Tick(c))
    /\ \A c \in Conns : WF_vars(ContextDone(c, "deadline exceeded"))

-----------------------------------------------------------------------------
(* The start of the process: main loads the configuration, creates the producer,
   builds the authenticator from the configured users and tokens, and starts the
   server; the server then hands requests to the authenticator. *)

\* config files: none, one that cannot be read, one that is not YAML, a document
File(doc) == [kind |-> "document", doc |-> doc]
NoFile == [kind |-> "none"]

User(name, password) == [Username |-> name, Password |-> password]

TypeBasic  == <<"b","a","s","i","c">>
TypeBearer == <<"b","e","a","r","e","r">>
FileBroker == <<"k","1",":","9","0","9","2">>

\* the documents of the config files
Documents ==
    {EmptyMap,
     ("server.port" :> 9090) @@ ("kafka.retries" :> 5) @@ ("kafka.acks" :> <<"1">>)
        @@ ("kafka.brokers" :> <<FileBroker>>) @@ ("kafka.compression_type" :> <<"g","z","i","p">>),
     ("server.port" :> 0),
     ("server.port" :> 1),
     ("server.port" :> 65535),
     ("server.port" :> 65536),
     ("kafka.brokers" :> <<>>),
     ("kafka.brokers" :> <<FileBroker, <<"x">> \o Placeholder \o <<"_","E","N","V">> >>),
     ("auth.type" :> TypeBearer) @@ ("auth.tokens" :> <<Tok1>>),
     ("auth.type" :> <<"B","e","a","r","e","r">>) @@ ("auth.users" :> <<User(UserA, PassP)>>),
     ("auth.type" :> <<"B","A","S","I","C">>),
     ("auth.type" :> TypeBasic)
        @@ ("auth.users" :> <<User(UserA, PassQ), User(UserB, PassQ), User(UserA, PassP)>>),
     ("auth.type" :> TypeNone) @@ ("auth.tokens" :> <<Tok1, Tok2>>),
     ("auth.type" :> TypeNone) @@ ("auth.users" :> <<User(UserA, PassP)>>),
     ("auth.type" :> <<"o","a","u","t","h">>) @@ ("auth.tokens" :> <<Tok2>>)
        @@ ("auth.users" :> <<User(UserA, PassP)>>),
     ("auth.type" :> <<>>)}

Files == {NoFile, [kind |-> "unreadable"], [kind |-> "malformed"]} \cup {File(d) : d \in Documents}

EnvTokens == Tok1 \o <<",">> \o Tok2
EnvUsers  == <<"a",":","p",",","b","a","d",",","b",":","q",":","r">>
EnvBrokers == <<"b","1",",","b","2">>

\* the environments of the process
Environs ==
    {EmptyMap,
     "SERVER_PORT" :> <<"9","9","9","9">>,
     "SERVER_PORT" :> <<"7","0","0","0","0">>,
     "SERVER_PORT" :> <<"-","1">>,
     "SERVER_PORT" :> <<"a","b","c">>,
     "SERVER_PORT" :> <<>>,
     "KAFKA_RETRIES" :> <<"1","0">>,
     "KAFKA_BROKERS" :> EnvBrokers,
     "KAFKA_BROKERS" :> Placeholder,
     ("KAFKA_ACKS" :> <<"0">>) @@ ("KAFKA_COMPRESSION_TYPE" :> <<"l","z","4">>),
     ("SERVER_PORT" :> <<"9","9","9","9">>) @@ ("KAFKA_RETRIES" :> <<"1","x">>)
        @@ ("KAFKA_BROKERS" :> EnvBrokers),
     "AUTH_TYPE" :> TypeBearer,
     "AUTH_TYPE" :> <<"B","a","s","i","c">>,
     "AUTH_TYPE" :> TypeNone,
     "AUTH_TOKENS" :> EnvTokens,
     "AUTH_BASIC_USERS" :> EnvUsers,
     ("AUTH_TYPE" :> TypeBearer) @@ ("AUTH_TOKENS" :> EnvTokens),
     ("AUTH_TYPE" :> TypeBasic) @@ ("AUTH_BASIC_USERS" :> EnvUsers)}

\* the requests the started server hands to its authenticator
StartupRequests ==
    {NoAuthorization,
     WithAuthorization(Bearer \o <<" ">> \o Tok1),
     WithAuthorization(Bearer \o <<" ">> \o Tok3),
     WithAuthorization(Basic \o <<" ">> \o <<"Y","T","p","w">>)}

\* the process before main has run, with its config file and its environment
InitConfig ==
    /\ \E file \in Files, environ \in Environs :
          main = [pc |-> "start", file |-> file, environ |-> environ, cfg |-> NilConfig,
                  err |-> "nil", producer |-> FALSE, listening |-> FALSE]
    /\ callerUsers = EmptyMap
    /\ callerTokens = <<>>
    /\ built = [usersRef |-> Nil, users |-> EmptyMap, tokens |-> <<>>]
    /\ basicAuth = NilAuth
    /\ bearerAuth = NilAuth
    /\ multiAuth = NilAuth
    /\ lastCall = NoCall
    /\ ServerIdle

\* cfg, err := config.Load(getConfigPath()); on an error logger.Fatal ends the process
MainLoad ==
    /\ main.pc = "start"
    /\ LET res == Load(main.file, main.environ)
       IN  main' = [main EXCEPT !.cfg = res.cfg, !.err = res.err,
                                !.pc = IF res.err = "nil" THEN "loaded" ELSE "exited"]
    /\ UNCHANGED authVars
    /\ UNCHANGED serverVars

\* producer, err := kafka.NewProducer(...); on an error logger.Fatal ends the process
MainNewProducer(ok) ==
    /\ main.pc = "loaded"
    /\ main' = [main EXCEPT !.producer = ok,
                            !.err = IF ok THEN "nil" ELSE "failed to create kafka producer",
                            !.pc = IF ok THEN "producer" ELSE "exited"]
    /\ UNCHANGED authVars
    /\ UNCHANGED serverVars

\* users[u.Username] = u.Password for the users from index i on: a later entry of the
\* same name replaces an earlier one
RECURSIVE UserMapFrom(_, _, _)
UserMapFrom(list, i, m) ==
    IF i > Len(list) THEN m
    ELSE UserMapFrom(list, i + 1, MapSet(MapDelete(m, list[i].Username),
                                         list[i].Username, list[i].Password))

\* users := make(map[string]string) and the loop over cfg.Auth.Users
MainBuildUsers ==
    /\ main.pc = "producer"
    /\ callerUsers' = UserMapFrom(main.cfg.Auth.Users, 1, EmptyMap)
    /\ callerTokens' = main.cfg.Auth.Tokens
    /\ main' = [main EXCEPT !.pc = "users"]
    /\ UNCHANGED <<built, basicAuth, bearerAuth, multiAuth, lastCall>>
    /\ UNCHANGED serverVars

\* mutant: the authenticator follows the declared auth.type
AuthenticatorByType(cfg) ==
    IF ToLower(cfg.Auth.Type) = TypeBasic THEN NewMultiAuth(CallerUsersRef, <<>>)
    ELSE IF ToLower(cfg.Auth.Type) = TypeBearer THEN NewMultiAuth(Nil, cfg.Auth.Tokens)
    ELSE NewMultiAuth(Nil, <<>>)

\* auth.NewMultiAuth(users, cfg.Auth.Tokens)
Authenticator(cfg) == NewMultiAuth(CallerUsersRef, cfg.Auth.Tokens)

\* authenticator := auth.NewMultiAuth(users, cfg.Auth.Tokens)
MainNewMultiAuth ==
    /\ main.pc = "users"
    /\ multiAuth' = Authenticator(main.cfg)
    /\ built' = [usersRef |-> CallerUsersRef, users |-> callerUsers, tokens |-> callerTokens]
    /\ main' = [main EXCEPT !.pc = "auth"]
    /\ UNCHANGED <<callerUsers, callerTokens, basicAuth, bearerAuth, lastCall>>
    /\ UNCHANGED serverVars

\* server.NewServer(...) and srv.Start(): the server listens, or ListenAndServe fails
\* and logger.Fatal ends the process
MainStart(ok) ==
    /\ main.pc = "auth"
    /\ main' = [main EXCEPT !.listening = ok,
                            !.err = IF ok THEN "nil" ELSE "server error",
                            !.pc = IF ok THEN "listening" ELSE "exited"]
    /\ UNCHANGED authVars
    /\ UNCHANGED serverVars

\* a handler of the listening server calls s.auth.Authenticate(r)
ServerAuthenticates(r) ==
    /\ main.pc = "listening"
    /\ CallMulti(r)

NextConfig ==
    \/ MainLoad
    \/ \E ok \in BOOLEAN : MainNewProducer(ok)
    \/ MainBuildUsers
    \/ MainNewMultiAuth
    \/ \E ok \in BOOLEAN : MainStart(ok)
    \/ \E r \in StartupRequests : ServerAuthenticates(r)
    \/ CallReturn

SpecConfig == InitConfig /\ [][NextConfig]_vars

-----------------------------------------------------------------------------
(* The running process: main has started the server and waits for a signal while
   requests are served; the client library delivers what was queued; on SIGINT or
   SIGTERM main shuts the server down, closes the producer and returns. *)

\* srv.Shutdown is given 30 seconds
shutdownTimeout == 30

\* cfg.Server.ReadTimeout in seconds: the default, and a value set in the file or by
\* SERVER_READ_TIMEOUT; http.Server gives the reading of a request, body included, that
\* long
ReadTimeouts == {10, 40}

\* the requests clients send to the running process
ProcessRequests ==
    {Request("POST", Slash \o Events, PlainHeaders, SmallBody),
     Request("POST", Slash \o Events, PlainHeaders, OverBody),
     Request("GET", Slash \o Health, PlainHeaders, EmptyBody)}

InitProcess ==
    /\ Construct(CallerUsersRef, EmptyMap, <<>>)
    /\ conn = [c \in Conns |-> Idle]
    /\ metrics = [RequestsTotal |-> 0, RequestsSuccess |-> 0, RequestsError |-> 0,
                  MessagesProduced |-> 0]
    /\ served = 0
    /\ outside = NothingSent
    /\ \E rt \in ReadTimeouts :
          main = [pc |-> "listening", readTimeout |-> rt, drain |-> 0,
                  producer |-> "open", shutdownErr |-> "nil"]

\* the process has not ended: its goroutines take steps
Running == main.pc # "exited"

\* the listener is open: http.Server takes requests until Shutdown is called
Listening == main.pc = "listening"

\* a second passes, for every timer that runs: the read deadline of a request being
\* read, the deadline of produceCtx, the deadline of the context given to Shutdown.
\* A timer that has reached its deadline fires before more time passes.
Second ==
    /\ Running
    /\ \/ main.pc = "shutdown"
       \/ \E c \in Conns : conn[c].pc \in {"handler", "produce", "waiting"}
    /\ main.pc = "shutdown" => main.drain < shutdownTimeout
    /\ \A c \in Conns :
          /\ conn[c].pc = "handler" => conn[c].elapsed < main.readTimeout
          /\ conn[c].pc \in {"produce", "waiting"} => conn[c].elapsed < produceTimeout
    /\ conn' = [c \in Conns |->
                   IF conn[c].pc \in {"handler", "produce", "waiting"}
                   THEN [conn[c] EXCEPT !.elapsed = @ + 1]
                   ELSE conn[c]]
    /\ main' = IF main.pc = "shutdown" THEN [main EXCEPT !.drain = @ + 1] ELSE main
    /\ UNCHANGED <<metrics, served, outside>>
    /\ UNCHANGED authVars

\* the broker stores a queued message in the topic's log and acknowledges it; the
\* library delivers what is in its queue for as long as the producer is open, whether
\* or not the Produce call that queued the message is still waiting
BrokerStores(n) ==
    /\ Running
    /\ outside.observed
    /\ main.producer = "open"
    /\ n \in outside.queue
    /\ outside' = [outside EXCEPT !.queue = @ \ {n}, !.log = @ \cup {n}]
    /\ UNCHANGED <<conn, metrics, served>>
    /\ UNCHANGED authVars
    /\ UNCHANGED mainVars

\* sig := <-stop; ctx with a timeout of 30 seconds; srv.Shutdown(ctx) closes the listener
MainSignal ==
    /\ main.pc = "listening"
    /\ main' = [main EXCEPT !.pc = "shutdown", !.drain = 0]
    /\ UNCHANGED serverVars
    /\ UNCHANGED authVars

\* the context given to srv.Shutdown has reached its deadline
ShutdownExpired(m) == m.drain >= shutdownTimeout

\* srv.Shutdown returns: nil when no connection is serving a request any more, the
\* context's error when its deadline passes first; main logs the error and goes on
MainShutdownReturns ==
    /\ main.pc = "shutdown"
    /\ \/ /\ \A c \in Conns : conn[c].pc = "idle"
          /\ main' = [main EXCEPT !.pc = "stopped", !.shutdownErr = "nil"]
       \/ /\ \E c \in Conns : conn[c].pc # "idle"
          /\ ShutdownExpired(main)
          /\ main' = [main EXCEPT !.pc = "stopped", !.shutdownErr = "deadline exceeded"]
    /\ UNCHANGED serverVars
    /\ UNCHANGED authVars

\* main returns and the deferred producer.Close() runs: Producer.Close, p.producer.Flush
MainFlush ==
    /\ main.pc = "stopped"
    /\ main' = [main EXCEPT !.pc = "flushed"]
    /\ UNCHANGED serverVars
    /\ UNCHANGED authVars

\* Producer.Close, p.producer.Close(): the handle is released, what is still queued
\* is dropped
MainClose ==
    /\ main.pc = "flushed"
    /\ main' = [main EXCEPT !.pc = "closed", !.producer = "closed"]
    /\ outside' = IF outside.observed THEN [outside EXCEPT !.queue = {}] ELSE outside
    /\ UNCHANGED <<conn, metrics, served>>
    /\ UNCHANGED authVars

\* main has returned: the process ends, and its goroutines with it
MainExit ==
    /\ main.pc = "closed"
    /\ main' = [main EXCEPT !.pc = "exited"]
    /\ UNCHANGED serverVars
    /\ UNCHANGED authVars

NextProcess ==
    \/ \E c \in Conns, r \in ProcessRequests : Listening /\ Accept(c, r)
    \/ \E c \in Conns : Running /\ Serve(c, TRUE)
    \/ \E c \in Conns : Running /\ main.producer = "open" /\ Enqueue(c)
    \/ \E c \in Conns : Running /\ EnqueueFails(c)
    \/ \E c \in Conns, ev \in DeliveryEvents : Running /\ DeliveryEvent(c, ev)
    \/ \E c \in Conns, cause \in ContextErrors : Running /\ ContextDone(c, cause)
    \/ \E c \in Conns : Running /\ Finish(c)
    \/ Second
    \/ \E n \in 1..MaxRequests : BrokerStores(n)
    \/ MainSignal
    \/ MainShutdownReturns
    \/ MainFlush
    \/ MainClose
    \/ MainExit

SpecProcess == InitProcess /\ [][NextProcess]_vars


-----------------------------------------------------------------------------
(* Properties of internal/auth, checked under SpecAuth *)

\* s equals the word ignoring case; lower and upper are the word's two spellings
EqualsIgnoringCase(s, lower, upper) ==
    /\ Len(s) = Len(lower)
    /\ \A i \in 1..Len(s) : s[i] = lower[i] \/ s[i] = upper[i]

IsBearerWord(s) ==
    EqualsIgnoringCase(s, <<"b","e","a","r","e","r">>, <<"B","E","A","R","E","R">>)
IsBasicWord(s) ==
    EqualsIgnoringCase(s, <<"b","a","s","i","c">>, <<"B","A","S","I","C">>)

\* the request carries an Authorization header
HasAuthorization(r) == HdrAuthorization \in DOMAIN r.Header
AuthorizationOf(r) == r.Header[HdrAuthorization][1]

\* the header value is '<scheme> <x>': scheme, one space, x
IsSchemeThenText(h, k) == k \in 1..Len(h) /\ h[k] = " " /\ \A j \in 1..(k - 1) : h[j] # " "
SchemePart(h, k) == SubSeq(h, 1, k - 1)
TextPart(h, k) == SubSeq(h, k + 1, Len(h))

\* the request is a well-formed Bearer request
WellFormedBearer(r) ==
    /\ HasAuthorization(r)
    /\ \E k \in 1..Len(AuthorizationOf(r)) :
          IsSchemeThenText(AuthorizationOf(r), k) /\ IsBearerWord(SchemePart(AuthorizationOf(r), k))

\* the tokens the strategies were built from, as a set
BuiltTokenSet == {built.tokens[j] : j \in 1..Len(built.tokens)}

\* C1: BearerAuth.Authenticate returns true exactly when the Authorization header is
\* '<scheme> <x>' with scheme 'bearer' in any letter case and x one of the tokens the
\* strategy was built from, whatever their order; every other header gives false.
C1_BearerIffMember ==
    lastCall.strategy = "bearer" =>
        (lastCall.result <=>
            /\ HasAuthorization(lastCall.request)
            /\ \E k \in 1..Len(AuthorizationOf(lastCall.request)) :
                  /\ IsSchemeThenText(AuthorizationOf(lastCall.request), k)
                  /\ IsBearerWord(SchemePart(AuthorizationOf(lastCall.request), k))
                  /\ TextPart(AuthorizationOf(lastCall.request), k) \in BuiltTokenSet)

\* C1 witness: the token matched is the first of two different configured tokens,
\* under a scheme word that is not spelled 'Bearer'
C1_Witness ==
    /\ lastCall.strategy = "bearer"
    /\ lastCall.result
    /\ built.tokens = <<Tok1, Tok2>>
    /\ lastCall.request = WithAuthorization(<<"b","E","A","R","E","R">> \o <<" ">> \o Tok1)

\* the map the Basic strategy reads at the time of the call
UsersOfBasic == MapAt(basicAuth.users)

\* C2: BasicAuth.Authenticate returns true exactly when the request carries well-formed
\* Basic credentials (user, pass) with user a key of the strategy's map U and pass equal
\* to U[user]; in particular 'Basic YTpw' (a:p) is accepted exactly when U[a] = p, and a
\* missing header or a Bearer header is refused.
C2_BasicIffUserAndPassword ==
    lastCall.strategy = "basic" =>
        /\ lastCall.result <=>
              /\ RequestBasicAuth(lastCall.request).ok
              /\ RequestBasicAuth(lastCall.request).username \in DOMAIN UsersOfBasic
              /\ UsersOfBasic[RequestBasicAuth(lastCall.request).username]
                    = RequestBasicAuth(lastCall.request).password
        /\ lastCall.request = WithAuthorization(Basic \o <<" ">> \o <<"Y","T","p","w">>)
              => (lastCall.result <=> (UserA \in DOMAIN UsersOfBasic /\ UsersOfBasic[UserA] = PassP))
        /\ lastCall.request = WithAuthorization(Basic \o <<" ">> \o <<"Y","T","p","w","O","n","E","=">>)
              => (lastCall.result <=>
                    (UserA \in DOMAIN UsersOfBasic /\ UsersOfBasic[UserA] = <<"p",":","q">>))
        /\ ~HasAuthorization(lastCall.request) => ~lastCall.result
        /\ (HasAuthorization(lastCall.request)
              /\ Len(AuthorizationOf(lastCall.request)) >= 5
              /\ ~IsBasicWord(SubSeq(AuthorizationOf(lastCall.request), 1, 5))) => ~lastCall.result

\* C2 witness: a known user with the wrong password is refused
C2_Witness ==
    /\ lastCall.strategy = "basic"
    /\ ~lastCall.result
    /\ UserA \in DOMAIN UsersOfBasic /\ UsersOfBasic[UserA] = PassP
    /\ lastCall.request = WithAuthorization(Basic \o <<" ">> \o <<"Y","T","p","x">>)

\* C3: with at least one sub-strategy configured, MultiAuth.Authenticate is the Basic
\* sub-strategy's answer for scheme 'basic' when Basic is configured, the Bearer
\* sub-strategy's answer for scheme 'bearer' when Bearer is configured, and false
\* otherwise (no header, no space, another scheme, sub-strategy not configured).
C3_MultiDelegates ==
    (lastCall.strategy = "multi" /\ HasAuth(multiAuth)) =>
        LET r  == lastCall.request
            ks == IF HasAuthorization(r)
                  THEN {k \in 1..Len(AuthorizationOf(r)) : IsSchemeThenText(AuthorizationOf(r), k)}
                  ELSE {}
        IN  IF ks = {} THEN ~lastCall.result
            ELSE LET scheme == SchemePart(AuthorizationOf(r), CHOOSE k \in ks : TRUE)
                 IN  IF IsBasicWord(scheme) /\ multiAuth.basic # NilAuth
                     THEN lastCall.result = BasicAuth_Authenticate(multiAuth.basic, r)
                     ELSE IF IsBearerWord(scheme) /\ multiAuth.bearer # NilAuth
                     THEN lastCall.result = BearerAuth_Authenticate(multiAuth.bearer, r)
                     ELSE ~lastCall.result

\* C3 witness: only Basic is configured and a well-formed Bearer header is refused
C3_Witness ==
    /\ lastCall.strategy = "multi"
    /\ multiAuth.basic # NilAuth /\ multiAuth.bearer = NilAuth
    /\ lastCall.request = WithAuthorization(Bearer \o <<" ">> \o Tok1)
    /\ ~lastCall.result

\* C4: a MultiAuth built with no users and no tokens has HasAuth() = false and
\* Authenticate returns true for every request, with or without a header.
C4_NoCredentialsAllowsAll ==
    (MapLen(built.users) = 0 /\ Len(built.tokens) = 0) =>
        /\ ~HasAuth(multiAuth)
        /\ lastCall.strategy = "multi" => lastCall.result

\* C4 witness: built from nothing, a request without any header was let through
C4_Witness ==
    /\ MapLen(built.users) = 0 /\ Len(built.tokens) = 0
    /\ lastCall.strategy = "multi"
    /\ ~HasAuthorization(lastCall.request)
    /\ lastCall.result

\* C5: for a well-formed Bearer request BearerAuth.Authenticate calls the constant-time
\* comparator once per configured token, wherever the match is and whether there is one.
C5_ComparesEveryToken ==
    (lastCall.strategy = "bearer" /\ WellFormedBearer(lastCall.request)) =>
        lastCall.compares = Len(built.tokens)

\* C5 witness: the first of two tokens matched and both were compared
C5_Witness ==
    /\ lastCall.strategy = "bearer"
    /\ lastCall.result
    /\ built.tokens = <<Tok1, Tok2>>
    /\ lastCall.request = WithAuthorization(Bearer \o <<" ">> \o Tok1)
    /\ lastCall.compares = 2

\* C6: once the strategies are built, nothing the caller does to the map or the slice
\* it built them from (a step that is not a call) changes the answer of any
\* Authenticate call.
C6_CallerMutationChangesNothing ==
    [][(lastCall = NoCall /\ lastCall' = NoCall) =>
          \A r \in AuthRequests :
              /\ BasicAuth_Authenticate(basicAuth, r)' = BasicAuth_Authenticate(basicAuth, r)
              /\ BearerAuth_Authenticate(bearerAuth, r)' = BearerAuth_Authenticate(bearerAuth, r)
              /\ MultiAuth_Authenticate(multiAuth, r)' = MultiAuth_Authenticate(multiAuth, r)]_vars

\* the answer the strategy named s gives to request r in the current state
AnswerOf(s, r) ==
    IF s = "basic" THEN BasicAuth_Authenticate(basicAuth, r)
    ELSE IF s = "bearer" THEN BearerAuth_Authenticate(bearerAuth, r)
    ELSE MultiAuth_Authenticate(multiAuth, r)

\* C24: a call of Authenticate changes nothing. Its result is the answer the strategy
\* gives when asked again; the call leaves the strategies and the caller's data as they
\* were; and after any number of calls, accepted or refused, the strategies are the
\* ones that were built and the holder of a valid token or password is still let in
\* by the single strategy and by MultiAuth: refused attempts lock nobody out.
C24_AuthenticateHasNoSideEffects ==
    /\ [](lastCall # NoCall =>
             lastCall.result = AnswerOf(lastCall.strategy, lastCall.request))
    /\ [](/\ basicAuth = NewBasicAuth(built.usersRef)
          /\ bearerAuth = NewBearerAuth(built.tokens)
          /\ multiAuth.basic \in {NilAuth, NewBasicAuth(built.usersRef)}
          /\ multiAuth.bearer \in {NilAuth, NewBearerAuth(built.tokens)}
          /\ multiAuth.basic # NilAuth <=> MapLen(built.users) > 0
          /\ multiAuth.bearer # NilAuth <=> Len(built.tokens) > 0)
    /\ [](\A s \in {"bearer", "multi"} :
             Tok1 \in BuiltTokenSet =>
                 AnswerOf(s, WithAuthorization(Bearer \o <<" ">> \o Tok1)))
    /\ [](\A s \in {"basic", "multi"} :
             (/\ MapLen(built.users) > 0
              /\ UserA \in DOMAIN callerUsers
              /\ callerUsers[UserA] = PassP) =>
                 AnswerOf(s, WithAuthorization(Basic \o <<" ">> \o <<"Y","T","p","w">>)))
    /\ [][(lastCall = NoCall /\ lastCall' # NoCall) =>
             UNCHANGED <<basicAuth, bearerAuth, multiAuth, callerUsers, callerTokens>>]_vars

\* C24 witness: an attempt with an unknown token has been refused and the strategy
\* still holds both tokens and still accepts the first
C24_Witness ==
    /\ lastCall.strategy = "bearer"
    /\ lastCall.request = WithAuthorization(Bearer \o <<" ">> \o Tok3)
    /\ ~lastCall.result
    /\ bearerAuth.tokens = <<Tok1, Tok2>>
    /\ BearerAuth_Authenticate(bearerAuth, WithAuthorization(Bearer \o <<" ">> \o Tok1))

\* base64 texts that do not decode, or decode to a text without a colon
BadBasicTexts == {<<"Y","Q","=","=">>, <<"Y","T","p","w","=">>, <<"Y","!","p","w">>}

\* the Authorization header of r is absent, empty, without a space after the scheme
\* word ('Bearertoken'), of a scheme that is neither basic nor bearer, or Basic with
\* credentials that are not base64 of 'user:password'
IsMalformed(r) ==
    \/ ~HasAuthorization(r)
    \/ /\ HasAuthorization(r)
       /\ LET h  == AuthorizationOf(r)
              ks == {k \in 1..Len(h) : IsSchemeThenText(h, k)}
          IN  \/ h = Empty
              \/ ks = {}
              \/ \E k \in ks :
                    \/ ~IsBasicWord(SchemePart(h, k)) /\ ~IsBearerWord(SchemePart(h, k))
                    \/ IsBasicWord(SchemePart(h, k)) /\ TextPart(h, k) \in BadBasicTexts

\* C25: Authenticate of each strategy (MultiAuth with a sub-strategy configured, Basic
\* and Bearer whatever they hold) answers a malformed
\* Authorization header (absent, empty, 'Bearertoken', bad base64, no colon, unknown
\* scheme) with false: the call returns a boolean and the boolean is false.
C25_MalformedHeaderRefused ==
    (/\ lastCall # NoCall
     /\ IsMalformed(lastCall.request)
     /\ lastCall.strategy = "multi" => HasAuth(multiAuth)) =>
        /\ lastCall.result \in BOOLEAN
        /\ ~lastCall.result

\* C25 witness: 'Bearert1', the word and a configured token with no space between,
\* was refused by the Bearer strategy
C25_Witness ==
    /\ lastCall.strategy = "bearer"
    /\ lastCall.request = WithAuthorization(Bearer \o Tok1)
    /\ Tok1 \in BuiltTokenSet
    /\ MapLen(built.users) > 0
    /\ ~lastCall.result

-----------------------------------------------------------------------------
(* Properties of the webhook handler, checked under Spec *)

\* t is the path with its leading and trailing '/' removed
IsPathWithoutOuterSlashes(t, path) ==
    \E i \in 0..Len(path), j \in 0..Len(path) :
        /\ i + Len(t) + j = Len(path)
        /\ \A k \in 1..i : path[k] = "/"
        /\ \A k \in (Len(path) - j + 1)..Len(path) : path[k] = "/"
        /\ t = SubSeq(path, i + 1, Len(path) - j)
        /\ t # Empty => (t[1] # "/" /\ t[Len(t)] # "/")

\* t may be published to: not empty, one segment, not an operational endpoint's name
IsPublishableTopic(t) ==
    /\ Len(t) > 0
    /\ \A k \in 1..Len(t) : t[k] # "/"
    /\ t \notin {Health, Ready, Metrics}

\* the path with its leading and trailing '/' stripped: what is left between the
\* first and the last character that is not a '/'
StrippedPath(path) ==
    LET inner == {k \in 1..Len(path) : path[k] # "/"}
    IN  IF inner = {} THEN Empty
        ELSE SubSeq(path,
                    CHOOSE a \in inner : \A k \in inner : a <= k,
                    CHOOSE b \in inner : \A k \in inner : k <= b)

\* the request passes the method, authentication, topic and body checks
PassesAllChecks(r) ==
    /\ r.Method = "POST"
    /\ ~r.Body.fail
    /\ BodyLen(r.Body) >= 1
    /\ BodyLen(r.Body) <= maxBodyBytes
    /\ IsPublishableTopic(StrippedPath(r.Path))
    /\ MultiAuth_Authenticate(multiAuth, r)

\* C7: a request that passes the method, authentication, topic and body checks makes
\* the handler call Produce exactly once, whether Produce succeeds or fails; no request
\* ever has a second Produce call.
C7_ProduceExactlyOnce ==
    \A c \in Conns :
        conn[c].pc # "idle" =>
            /\ Len(conn[c].calls) <= 1
            /\ (conn[c].pc \in {"produce", "waiting", "written"} /\ PassesAllChecks(conn[c].req))
                  => Len(conn[c].calls) = 1

\* C7 witness: the publish of a valid request failed on the deadline and the handler
\* has answered, having called Produce once
C7_Witness ==
    \E c \in Conns :
        /\ conn[c].pc = "written"
        /\ PassesAllChecks(conn[c].req)
        /\ conn[c].err = "deadline exceeded"
        /\ Len(conn[c].calls) = 1

\* C8: every topic passed to Produce is non-empty, holds no '/', and is none of
\* 'health', 'ready', 'metrics', whatever the URL path.
C8_TopicIsOneUnreservedSegment ==
    \A c \in Conns :
        conn[c].pc # "idle" =>
            \A i \in 1..Len(conn[c].calls) :
                /\ conn[c].calls[i].topic # Empty
                /\ \A k \in 1..Len(conn[c].calls[i].topic) : conn[c].calls[i].topic[k] # "/"
                /\ conn[c].calls[i].topic # Health
                /\ conn[c].calls[i].topic # Ready
                /\ conn[c].calls[i].topic # Metrics

\* C8 witness: Produce was called for the path '//events', and so with topic 'events'
C8_Witness ==
    \E c \in Conns :
        /\ conn[c].pc = "produce"
        /\ conn[c].req.Path = Slash \o Slash \o Events
        /\ Len(conn[c].calls) = 1
        /\ conn[c].calls[1].topic = Events

\* C9: when Produce was called for a request and has returned, an error (a passed
\* deadline and a cancellation included) is answered 500 'produce_error', and nil is
\* answered 202 with status 'accepted', the topic published to and the request id the
\* response carries in X-Request-ID.
C9_ProduceOutcomeDecidesResponse ==
    \A c \in Conns :
        (conn[c].pc = "written" /\ Len(conn[c].calls) >= 1) =>
            /\ conn[c].err # "none"
            /\ conn[c].err = "nil" =>
                  /\ conn[c].w.codes = <<202>>
                  /\ conn[c].w.bodies =
                        << [status     |-> "accepted",
                            topic      |-> conn[c].calls[1].topic,
                            request_id |-> conn[c].w.header[HdrRequestID][1]] >>
            /\ conn[c].err # "nil" =>
                  /\ conn[c].w.codes = <<500>>
                  /\ Len(conn[c].w.bodies) = 1
                  /\ conn[c].w.bodies[1].error = "produce_error"

\* C9 witness: the request was cancelled while Produce waited, and the answer is 500
C9_Witness ==
    \E c \in Conns :
        /\ conn[c].pc = "written"
        /\ conn[c].err = "canceled"
        /\ conn[c].w.codes = <<500>>

\* C10: for an accepted request the message handed to the publisher has as topic the
\* URL path without its leading and trailing '/', as value the request body unchanged,
\* and the 202 response reports the topic published to.
C10_MessageIsPathAndBody ==
    \A c \in Conns :
        (conn[c].pc = "written" /\ conn[c].w.codes = <<202>>) =>
            /\ Len(conn[c].calls) = 1
            /\ IsPathWithoutOuterSlashes(conn[c].calls[1].topic, conn[c].req.Path)
            /\ conn[c].calls[1].value.head = conn[c].req.Body.head
            /\ conn[c].calls[1].value.pad = conn[c].req.Body.pad
            /\ conn[c].msg.Topic = conn[c].calls[1].topic
            /\ conn[c].msg.Value = conn[c].calls[1].value
            /\ conn[c].w.bodies[1].topic = conn[c].calls[1].topic

\* C10 witness: a body of exactly the largest size sent to '/events/' was accepted
C10_Witness ==
    \E c \in Conns :
        /\ conn[c].pc = "written"
        /\ conn[c].w.codes = <<202>>
        /\ conn[c].req.Path = Slash \o Events \o Slash
        /\ conn[c].req.Body = MaxBody
        /\ conn[c].calls[1].topic = Events

\* C11: when the request's context is cancelled while Produce waits for the delivery
\* report, the wait has ended with an error, the handler has answered 500
\* 'produce_error', and Produce was called once for the request, not twice.
C11_CancelledWaitIsProduceError ==
    \A c \in Conns :
        (conn[c].pc = "written" /\ conn[c].err = "canceled") =>
            /\ conn[c].msg # NoMessage
            /\ Len(conn[c].calls) = 1
            /\ conn[c].w.codes = <<500>>
            /\ conn[c].w.statusCode = 500
            /\ Len(conn[c].w.bodies) = 1
            /\ conn[c].w.bodies[1].error = "produce_error"

\* C11 witness: the message for 'events' was queued, the request was cancelled during
\* the wait, and the one answer is 500
C11_Witness ==
    \E c \in Conns :
        /\ conn[c].pc = "written"
        /\ conn[c].err = "canceled"
        /\ conn[c].msg # NoMessage
        /\ conn[c].msg.Topic = Events
        /\ conn[c].w.codes = <<500>>
        /\ Len(conn[c].calls) = 1

\* C12: the context given to Produce ends at the earlier of the request's cancellation
\* and produceTimeout seconds after the publish step started: the wait never outlasts
\* produceTimeout, a wait ended by the deadline ended at produceTimeout exactly, and a
\* wait always ends with the handler's response, even when no delivery report comes.
C12_WaitEndsByDeadline ==
    /\ [](\A c \in Conns : conn[c].pc = "waiting" => conn[c].elapsed <= produceTimeout)
    /\ [][\A c \in Conns :
             (conn[c].pc = "waiting" /\ conn'[c].pc = "written"
                 /\ conn'[c].err = "deadline exceeded")
             => conn[c].elapsed = produceTimeout]_vars
    /\ \A c \in Conns :
          (conn[c].pc = "waiting") ~> (conn[c].pc = "written" /\ Len(conn[c].w.codes) = 1)

\* C12 witness: no delivery report came, the deadline passed, and the handler answered
C12_Witness ==
    \E c \in Conns :
        /\ conn[c].pc = "written"
        /\ conn[c].err = "deadline exceeded"
        /\ conn[c].msg # NoMessage
        /\ Len(conn[c].w.codes) = 1

\* the text of h before its first space (all of h when it holds no space)
TextBeforeFirstSpace(h) ==
    LET k == CHOOSE k \in 1..(Len(h) + 1) :
                 /\ k = Len(h) + 1 \/ h[k] = " "
                 /\ \A j \in 1..(k - 1) : h[j] # " "
    IN  SubSeq(h, 1, k - 1)

\* the challenge a 401 to request r is to carry
ChallengeFor(r) ==
    IF HasAuthorization(r) /\ IsBearerWord(TextBeforeFirstSpace(AuthorizationOf(r)))
    THEN "Bearer realm=\"kahook\""
    ELSE "Basic realm=\"kahook\""

\* C13: every 401 response, of the webhook endpoint and of /metrics, carries a
\* WWW-Authenticate header: the Bearer challenge when the Authorization header's text
\* before its first space is 'bearer' in any letter case, the Basic challenge otherwise.
C13_ChallengeFollowsScheme ==
    \A c \in Conns :
        (conn[c].pc = "written" /\ conn[c].w.statusCode = 401) =>
            /\ conn[c].w.codes = <<401>>
            /\ HdrWWWAuthenticate \in DOMAIN conn[c].w.header
            /\ conn[c].w.header[HdrWWWAuthenticate] = <<ChallengeFor(conn[c].req)>>

\* C13 witness: /metrics answered 401 with the Bearer challenge to 'bEARER t3'
C13_Witness ==
    \E c \in Conns :
        /\ conn[c].pc = "written"
        /\ conn[c].w.codes = <<401>>
        /\ conn[c].req.Path = Slash \o Metrics
        /\ HasAuthorization(conn[c].req)
        /\ AuthorizationOf(conn[c].req) = <<"b","E","A","R","E","R">> \o <<" ">> \o Tok3
        /\ conn[c].w.header[HdrWWWAuthenticate] = <<"Bearer realm=\"kahook\"">>

\* the counters as /metrics is to report them
CounterSnapshot ==
    [requests_total    |-> metrics.RequestsTotal,
     requests_success  |-> metrics.RequestsSuccess,
     requests_error    |-> metrics.RequestsError,
     messages_produced |-> metrics.MessagesProduced]

\* C14: /metrics takes the decision of MultiAuth.Authenticate as the webhook endpoint
\* does: a GET is answered 401 exactly when Authenticate is false and 200 with the
\* counters when it is true (so always 200 when no credentials are configured); a POST
\* to a topic is answered 401 exactly when Authenticate is false; another method on
\* /metrics is answered 405 whatever the credentials.
C14_MetricsBehindSameAuth ==
    \A c \in Conns :
        conn[c].pc = "written" =>
            /\ (conn[c].req.Path = Slash \o Metrics /\ conn[c].req.Method # "GET") =>
                  /\ conn[c].w.codes = <<405>>
                  /\ HdrWWWAuthenticate \notin DOMAIN conn[c].w.header
            /\ (conn[c].req.Path = Slash \o Metrics /\ conn[c].req.Method = "GET") =>
                  /\ MultiAuth_Authenticate(multiAuth, conn[c].req) =>
                        /\ conn[c].w.codes = <<200>>
                        /\ conn[c].w.bodies = <<CounterSnapshot>>
                  /\ ~MultiAuth_Authenticate(multiAuth, conn[c].req) =>
                        conn[c].w.codes = <<401>>
                  /\ ~HasAuth(multiAuth) => conn[c].w.codes = <<200>>
            /\ (conn[c].req.Path \notin {Slash \o Health, Slash \o Ready, Slash \o Metrics}
                   /\ conn[c].req.Method = "POST") =>
                  (conn[c].w.codes = <<401>>
                      <=> ~MultiAuth_Authenticate(multiAuth, conn[c].req))

\* C14 witness: with credentials configured, GET /metrics with a configured token was
\* answered 200 and reports the second request
C14_Witness ==
    \E c \in Conns :
        /\ conn[c].pc = "written"
        /\ conn[c].req.Path = Slash \o Metrics
        /\ conn[c].req.Method = "GET"
        /\ HasAuth(multiAuth)
        /\ conn[c].w.codes = <<200>>
        /\ conn[c].w.bodies[1].requests_total = 2

\* the request is a POST that the mux hands to the webhook handler and that Authenticate
\* accepts
IsAuthenticatedPost(r) ==
    /\ r.Method = "POST"
    /\ r.Path \notin {Slash \o Health, Slash \o Ready, Slash \o Metrics}
    /\ MultiAuth_Authenticate(multiAuth, r)

\* the one response written is the error (code, kind)
AnsweredError(cn, code, kind) ==
    /\ cn.pc = "written"
    /\ cn.w.codes = <<code>>
    /\ Len(cn.w.bodies) = 1
    /\ "error" \in DOMAIN cn.w.bodies[1]
    /\ cn.w.bodies[1].error = kind

\* C15: for an authenticated POST the handler answers 400 'invalid_topic' when the
\* stripped path is empty or holds a '/', 400 'reserved_topic' when it is 'health',
\* 'ready' or 'metrics', and otherwise goes on to the body step: it answers neither of
\* the two, and a non-empty body that the publisher takes is answered 202.
C15_TopicValidation ==
    \A c \in Conns :
        (conn[c].pc \in {"produce", "waiting", "written"} /\ IsAuthenticatedPost(conn[c].req)) =>
            LET t == StrippedPath(conn[c].req.Path)
            IN  IF t = Empty \/ \E k \in 1..Len(t) : t[k] = "/"
                THEN AnsweredError(conn[c], 400, "invalid_topic") /\ conn[c].calls = <<>>
                ELSE IF t \in {Health, Ready, Metrics}
                THEN AnsweredError(conn[c], 400, "reserved_topic") /\ conn[c].calls = <<>>
                ELSE /\ ~AnsweredError(conn[c], 400, "invalid_topic")
                     /\ ~AnsweredError(conn[c], 400, "reserved_topic")
                     /\ (conn[c].pc = "written" /\ conn[c].err = "nil")
                           => conn[c].w.codes = <<202>>
                     /\ (~conn[c].req.Body.fail /\ BodyLen(conn[c].req.Body) \in 1..maxBodyBytes)
                           => Len(conn[c].calls) = 1

\* C15 witness: with credentials configured, '/a/b' was refused as an invalid topic
C15_Witness ==
    \E c \in Conns :
        /\ HasAuth(multiAuth)
        /\ AnsweredError(conn[c], 400, "invalid_topic")
        /\ conn[c].req.Path = Slash \o <<"a">> \o Slash \o <<"b">>
        /\ IsAuthenticatedPost(conn[c].req)

\* the request passed the method, authentication and topic checks
PassedTopicCheck(r) ==
    /\ IsAuthenticatedPost(r)
    /\ IsPublishableTopic(StrippedPath(r.Path))

\* C16: for a request that passed the method, authentication and topic checks, a body
\* of 1 to 1048576 bytes is handed to Produce whole, and a body of 1048577 bytes or
\* more is answered 413 'body_too_large' with nothing published.
C16_BodySizeLimit ==
    \A c \in Conns :
        (conn[c].pc \in {"produce", "waiting", "written"}
            /\ ~conn[c].req.Body.fail
            /\ PassedTopicCheck(conn[c].req)) =>
            /\ (BodyLen(conn[c].req.Body) >= 1 /\ BodyLen(conn[c].req.Body) <= 1048576) =>
                  /\ Len(conn[c].calls) = 1
                  /\ conn[c].calls[1].value.head = conn[c].req.Body.head
                  /\ conn[c].calls[1].value.pad = conn[c].req.Body.pad
                  /\ BodyLen(conn[c].calls[1].value) = BodyLen(conn[c].req.Body)
                  /\ (conn[c].pc = "written" /\ conn[c].err = "nil")
                        => conn[c].w.codes = <<202>>
            /\ BodyLen(conn[c].req.Body) >= 1048577 =>
                  /\ AnsweredError(conn[c], 413, "body_too_large")
                  /\ conn[c].calls = <<>>
                  /\ conn[c].msg = NoMessage

\* C16 witness: a body of 1048577 bytes for the topic 'events' was answered 413
C16_Witness ==
    \E c \in Conns :
        /\ AnsweredError(conn[c], 413, "body_too_large")
        /\ BodyLen(conn[c].req.Body) = 1048577
        /\ PassedTopicCheck(conn[c].req)
        /\ conn[c].calls = <<>>

DeniedNames ==
    {<< <<"a","u","t","h","o","r","i","z","a","t","i","o","n">>,
        <<"A","U","T","H","O","R","I","Z","A","T","I","O","N">> >>,
     << <<"c","o","n","t","e","n","t","-","t","y","p","e">>,
        <<"C","O","N","T","E","N","T","-","T","Y","P","E">> >>,
     << <<"c","o","n","t","e","n","t","-","l","e","n","g","t","h">>,
        <<"C","O","N","T","E","N","T","-","L","E","N","G","T","H">> >>,
     << <<"h","o","s","t">>, <<"H","O","S","T">> >>,
     << <<"u","s","e","r","-","a","g","e","n","t">>,
        <<"U","S","E","R","-","A","G","E","N","T">> >>,
     << <<"a","c","c","e","p","t">>, <<"A","C","C","E","P","T">> >>,
     << <<"a","c","c","e","p","t","-","e","n","c","o","d","i","n","g">>,
        <<"A","C","C","E","P","T","-","E","N","C","O","D","I","N","G">> >>,
     << <<"c","o","n","n","e","c","t","i","o","n">>,
        <<"C","O","N","N","E","C","T","I","O","N">> >>}

\* the header name is on the denylist, in whatever letter case
IsDeniedName(n) == \E d \in DeniedNames : EqualsIgnoringCase(n, d[1], d[2])

\* C18: the header map passed to Produce holds exactly the request headers whose name
\* is not on the denylist (compared ignoring case), each with the first of its values,
\* and the message built from it carries the same headers and no denylisted one.
C18_HeadersFiltered ==
    \A c \in Conns :
        (conn[c].pc \in {"produce", "waiting", "written"} /\ Len(conn[c].calls) >= 1) =>
            LET sent == conn[c].req.Header
                kept == conn[c].calls[1].headers
            IN  /\ DOMAIN kept = {n \in DOMAIN sent : ~IsDeniedName(n)}
                /\ \A n \in DOMAIN kept : kept[n] = sent[n][1]
                /\ conn[c].msg # NoMessage =>
                      /\ \A h \in conn[c].msg.Headers : ~IsDeniedName(h.Key)
                      /\ conn[c].msg.Headers =
                            {[Key |-> n, Value |-> sent[n][1]] :
                                n \in {x \in DOMAIN sent : ~IsDeniedName(x)}}

\* C18 witness: a request with Authorization, Content-Type, User-Agent, ACCEPT, host,
\* X-Custom (two values) and X-Webhook-Key was published with the last two only
C18_Witness ==
    \E c \in Conns :
        /\ conn[c].pc = "waiting"
        /\ HdrAuthorization \in DOMAIN conn[c].req.Header
        /\ <<"A","C","C","E","P","T">> \in DOMAIN conn[c].req.Header
        /\ Len(conn[c].req.Header[HdrCustom]) = 2
        /\ conn[c].msg.Headers =
              {[Key |-> HdrCustom, Value |-> <<"v","1">>],
               [Key |-> HdrWebhookKey, Value |-> <<"k","1">>]}

\* C19: the key passed to Produce, and the key of the message, is the bytes of the
\* X-Webhook-Key request header when the header is present and not empty, and nil when
\* the header is missing or empty.
C19_KeyFromWebhookKeyHeader ==
    \A c \in Conns :
        (conn[c].pc \in {"produce", "waiting", "written"} /\ Len(conn[c].calls) >= 1) =>
            LET sent == conn[c].req.Header
                key  == conn[c].calls[1].key
            IN  /\ IF HdrWebhookKey \in DOMAIN sent /\ Len(sent[HdrWebhookKey][1]) > 0
                   THEN ~key.nil /\ key.bytes = sent[HdrWebhookKey][1]
                   ELSE key.nil
                /\ conn[c].msg # NoMessage => conn[c].msg.Key = key

\* C19 witness: 'X-Webhook-Key: k1' was sent and the queued message has the key k1
C19_Witness ==
    \E c \in Conns :
        /\ conn[c].pc = "waiting"
        /\ HdrWebhookKey \in DOMAIN conn[c].req.Header
        /\ conn[c].req.Header[HdrWebhookKey] = << <<"k","1">> >>
        /\ ~conn[c].msg.Key.nil
        /\ conn[c].msg.Key.bytes = <<"k","1">>

\* C20: GET /ready is answered 200 {status: ready} exactly when the producer is
\* present and its IsConnected() returned true for this request, and 503 'not_ready'
\* otherwise (IsConnected() false, or no producer); another method is answered 405.
C20_ReadyIffConnected ==
    \A c \in Conns :
        (conn[c].pc = "written" /\ conn[c].req.Path = Slash \o Ready) =>
            /\ conn[c].req.Method # "GET" =>
                  /\ AnsweredError(conn[c], 405, "method_not_allowed")
                  /\ conn[c].probes = <<>>
            /\ conn[c].req.Method = "GET" =>
                  /\ Len(conn[c].probes) = 1
                  /\ conn[c].probes[1] =>
                        /\ conn[c].w.codes = <<200>>
                        /\ conn[c].w.bodies = <<[status |-> "ready"]>>
                  /\ ~conn[c].probes[1] => AnsweredError(conn[c], 503, "not_ready")
                  /\ LET w0 == NewResponseWriter(conn[c].w.header[HdrRequestID][1])
                         cn == [pc |-> "written", w |-> readyHandler(w0, conn[c].req, NilProducer).w]
                     IN  AnsweredError(cn, 503, "not_ready")

\* C20 witness: IsConnected() returned false and GET /ready was answered 503
C20_Witness ==
    \E c \in Conns :
        /\ conn[c].pc = "written"
        /\ conn[c].req.Path = Slash \o Ready
        /\ conn[c].req.Method = "GET"
        /\ conn[c].probes = <<FALSE>>
        /\ conn[c].w.codes = <<503>>

\* C21: /health is answered 200 {status: healthy} to GET and to HEAD whatever the
\* producer's connectivity (it is not asked) and whatever credentials are configured
\* or sent, and 405 to every other method.
C21_HealthAlwaysHealthy ==
    \A c \in Conns :
        (conn[c].pc = "written" /\ conn[c].req.Path = Slash \o Health) =>
            /\ conn[c].probes = <<>>
            /\ conn[c].calls = <<>>
            /\ conn[c].req.Method \in {"GET", "HEAD"} =>
                  /\ conn[c].w.codes = <<200>>
                  /\ conn[c].w.bodies = <<[status |-> "healthy"]>>
            /\ conn[c].req.Method \notin {"GET", "HEAD"} =>
                  AnsweredError(conn[c], 405, "method_not_allowed")

\* C21 witness: with credentials configured, HEAD /health without an Authorization
\* header was answered 200
C21_Witness ==
    \E c \in Conns :
        /\ conn[c].pc = "written"
        /\ conn[c].req.Path = Slash \o Health
        /\ conn[c].req.Method = "HEAD"
        /\ HasAuth(multiAuth)
        /\ ~HasAuthorization(conn[c].req)
        /\ conn[c].w.codes = <<200>>

\* the mux hands the request to the webhook handler
GoesToWebhookHandler(r) == r.Path \notin {Slash \o Health, Slash \o Ready, Slash \o Metrics}

\* C30: the first failing check of the webhook handler decides the response, in the
\* order method, authentication, topic shape, reserved topic, body size and read, empty
\* body: a request that is not a POST is answered 405 with or without credentials; a
\* POST that is not authenticated is answered 401 whatever its path and body, and its
\* body is never read; an authenticated POST to an invalid or reserved path is answered
\* 400 'invalid_topic' or 'reserved_topic' and its body, oversized or empty, is not
\* read; only then is the body read, once, and judged.
C30_FirstFailingCheckDecides ==
    \A c \in Conns :
        (conn[c].pc \in {"produce", "waiting", "written"}
            /\ GoesToWebhookHandler(conn[c].req)) =>
            LET r == conn[c].req
                t == StrippedPath(r.Path)
            IN  IF r.Method # "POST"
                THEN /\ AnsweredError(conn[c], 405, "method_not_allowed")
                     /\ conn[c].reads = 0 /\ conn[c].calls = <<>>
                ELSE IF ~MultiAuth_Authenticate(multiAuth, r)
                THEN /\ conn[c].pc = "written" /\ conn[c].w.codes = <<401>>
                     /\ conn[c].reads = 0 /\ conn[c].calls = <<>>
                ELSE IF t = Empty \/ \E k \in 1..Len(t) : t[k] = "/"
                THEN /\ AnsweredError(conn[c], 400, "invalid_topic")
                     /\ conn[c].reads = 0 /\ conn[c].calls = <<>>
                ELSE IF t \in {Health, Ready, Metrics}
                THEN /\ AnsweredError(conn[c], 400, "reserved_topic")
                     /\ conn[c].reads = 0 /\ conn[c].calls = <<>>
                ELSE /\ conn[c].reads = 1
                     /\ IF ~r.Body.fail /\ BodyLen(r.Body) > maxBodyBytes
                        THEN AnsweredError(conn[c], 413, "body_too_large")
                        ELSE IF r.Body.fail
                        THEN AnsweredError(conn[c], 400, "read_error")
                        ELSE IF BodyLen(r.Body) = 0
                        THEN AnsweredError(conn[c], 400, "empty_body")
                        ELSE Len(conn[c].calls) = 1

\* C30 witness: with credentials configured, a POST without credentials to the invalid
\* path '/a/b' with an oversized body was answered 401 and its body was not read
C30_Witness ==
    \E c \in Conns :
        /\ conn[c].pc = "written"
        /\ conn[c].w.codes = <<401>>
        /\ conn[c].req.Method = "POST"
        /\ conn[c].req.Path = Slash \o <<"a">> \o Slash \o <<"b">>
        /\ conn[c].req.Body = OverBody
        /\ HdrAuthorization \notin DOMAIN conn[c].req.Header
        /\ HasAuth(multiAuth)
        /\ conn[c].reads = 0

\* the request carries a credential that is configured: a configured token after the
\* word bearer, or the name and password of a configured user after the word basic
PresentsConfiguredCredential(r) ==
    /\ HasAuthorization(r)
    /\ \E k \in 1..Len(AuthorizationOf(r)) :
          /\ IsSchemeThenText(AuthorizationOf(r), k)
          /\ \/ /\ IsBearerWord(SchemePart(AuthorizationOf(r), k))
                /\ multiAuth.bearer # NilAuth
                /\ \E i \in 1..Len(multiAuth.bearer.tokens) :
                      multiAuth.bearer.tokens[i] = TextPart(AuthorizationOf(r), k)
             \/ /\ IsBasicWord(SchemePart(AuthorizationOf(r), k))
                /\ multiAuth.basic # NilAuth
                /\ RequestBasicAuth(r).ok
                /\ RequestBasicAuth(r).username \in DOMAIN MapAt(multiAuth.basic.users)
                /\ MapAt(multiAuth.basic.users)[RequestBasicAuth(r).username]
                      = RequestBasicAuth(r).password

\* C31: Produce is called only for a POST that is authenticated, names a publishable
\* topic and has a body of 1..maxBodyBytes bytes: a request answered 405, 401, 400 or
\* 413 without a Produce error caused no Produce call and no message, and with
\* credentials configured a request without a configured credential never has a message.
C31_ProduceOnlyAfterAllChecks ==
    \A c \in Conns :
        conn[c].pc # "idle" =>
            /\ conn[c].calls # <<>> =>
                  /\ conn[c].req.Method = "POST"
                  /\ IsPublishableTopic(StrippedPath(conn[c].req.Path))
                  /\ ~conn[c].req.Body.fail
                  /\ BodyLen(conn[c].req.Body) \in 1..maxBodyBytes
                  /\ HasAuth(multiAuth) => PresentsConfiguredCredential(conn[c].req)
            /\ (conn[c].pc = "written" /\ conn[c].w.codes[1] \in {405, 401, 400, 413}) =>
                  (conn[c].calls = <<>> /\ conn[c].msg = NoMessage)
            /\ (HasAuth(multiAuth) /\ ~PresentsConfiguredCredential(conn[c].req)) =>
                  (conn[c].calls = <<>> /\ conn[c].msg = NoMessage)

\* C31 witness: with tokens configured, a POST to '/events' with a small body and a
\* token that is not configured was answered 401 and no Produce call was made
C31_Witness ==
    \E c \in Conns :
        /\ conn[c].pc = "written"
        /\ conn[c].w.codes = <<401>>
        /\ multiAuth.bearer # NilAuth
        /\ conn[c].req.Method = "POST"
        /\ conn[c].req.Path = Slash \o Events
        /\ conn[c].req.Body = SmallBody
        /\ HasAuthorization(conn[c].req)
        /\ conn[c].calls = <<>>

\* C33: Producer.Produce returns nil exactly when what ended its wait is a delivery
\* report that carries no delivery error; it returns an error, and the handler has one
\* to report, when the client library refuses the message (then nothing was queued and
\* nothing waited for), when the report carries a delivery error, when the event is a
\* kafka.Error or of another type, and when the context ends first, by cancellation or
\* by its deadline; until it returns the handler holds no outcome.
C33_ProduceNilIffDelivered ==
    \A c \in Conns :
        /\ conn[c].pc \in {"produce", "waiting"} =>
              (conn[c].err = "none" /\ conn[c].event = NoEvent)
        /\ (conn[c].pc = "written" /\ conn[c].calls # <<>>) =>
              /\ conn[c].err # "none"
              /\ conn[c].event.type \in
                    {"*kafka.Message", "kafka.Error", "kafka.Stats", "ctx.Done", "enqueue"}
              /\ conn[c].err = "nil" <=>
                    (conn[c].event.type = "*kafka.Message" /\ conn[c].event.Error = "nil")
              /\ conn[c].event.type = "enqueue" =>
                    (conn[c].err = "failed to produce message" /\ conn[c].msg = NoMessage)
              /\ conn[c].event.type # "enqueue" => conn[c].msg # NoMessage
              /\ (conn[c].event.type = "*kafka.Message" /\ conn[c].event.Error # "nil") =>
                    conn[c].err = "message delivery failed"
              /\ conn[c].event.type = "kafka.Error" => conn[c].err = "kafka error"
              /\ conn[c].event.type = "kafka.Stats" => conn[c].err = "unexpected event type"
              /\ conn[c].event.type = "ctx.Done" =>
                    (conn[c].err = conn[c].event.Error /\ conn[c].err \in ContextErrors)

\* C33 witness: the delivery report of a queued message carried a delivery error and
\* Produce returned 'message delivery failed'
C33_Witness ==
    \E c \in Conns :
        /\ conn[c].pc = "written"
        /\ Len(conn[c].calls) = 1
        /\ conn[c].msg # NoMessage
        /\ conn[c].event = MessageEvent("message timed out")
        /\ conn[c].err = "message delivery failed"

-----------------------------------------------------------------------------
(* Properties of requests served at the same time, checked under SpecConcurrent *)

\* the X-Request-ID the request brought, empty when it brought none
InboundRequestID(r) ==
    IF HdrRequestID \in DOMAIN r.Header THEN r.Header[HdrRequestID][1] ELSE Empty

\* the identifiers generated for the first n requests
GeneratedIDs(n) == {<<"u","u","i","d","-", ToString(k)>> : k \in 1..n}

\* the request on connection c is being served and got a generated identifier
HasGeneratedID(c) == conn[c].pc # "idle" /\ InboundRequestID(conn[c].req) = Empty

\* C22: from the moment a request is taken up, its response carries one X-Request-ID:
\* the inbound one when that is present and not empty, otherwise a generated one, which
\* differs from every identifier generated before and from the one of a request served
\* at the same time; the request_id of a 202 body is that header's value.
C22_RequestIDOnEveryResponse ==
    /\ [](\A c \in ConnPair :
            conn[c].pc # "idle" =>
                /\ HdrRequestID \in DOMAIN conn[c].w.header
                /\ Len(conn[c].w.header[HdrRequestID]) = 1
                /\ InboundRequestID(conn[c].req) # Empty =>
                      conn[c].w.header[HdrRequestID][1] = InboundRequestID(conn[c].req)
                /\ InboundRequestID(conn[c].req) = Empty =>
                      conn[c].w.header[HdrRequestID][1] \in GeneratedIDs(served)
                /\ (conn[c].pc = "written" /\ conn[c].w.codes = <<202>>) =>
                      conn[c].w.bodies[1].request_id = conn[c].w.header[HdrRequestID][1])
    /\ [](\A c1, c2 \in ConnPair :
            (c1 # c2 /\ HasGeneratedID(c1) /\ HasGeneratedID(c2)) =>
                conn[c1].w.header[HdrRequestID] # conn[c2].w.header[HdrRequestID])
    /\ [][\A c \in ConnPair :
             (conn[c].pc = "idle" /\ HasGeneratedID(c)') =>
                 conn'[c].w.header[HdrRequestID][1] \notin GeneratedIDs(served)]_vars

\* C22 witness: two webhooks in flight, one answered 202 with the r1 it brought, the
\* other holding a generated identifier
C22_Witness ==
    \E c1, c2 \in ConnPair :
        /\ c1 # c2
        /\ conn[c1].pc = "written"
        /\ conn[c1].w.codes = <<202>>
        /\ conn[c1].w.header[HdrRequestID] = << <<"r","1">> >>
        /\ conn[c1].w.bodies[1].request_id = <<"r","1">>
        /\ HasGeneratedID(c2)
        /\ conn[c2].w.header[HdrRequestID][1] \in GeneratedIDs(served)

\* the requests taken up and not yet finished
InFlight == {c \in ConnPair : conn[c].pc # "idle"}

\* the requests answered 202 and not yet finished
Accepted202 == {c \in ConnPair : conn[c].pc = "written" /\ conn[c].w.codes = <<202>>}

\* C23: however the steps of two requests interleave, no counter ever decreases and no
\* increment is lost: requests_total is the number of requests taken up, success plus
\* error is the number of requests finished (so after N requests have completed and
\* none is in flight requests_total = N), and messages_produced counts the 202s.
C23_CountersLoseNothing ==
    /\ [](/\ metrics.RequestsTotal = served
          /\ metrics.RequestsSuccess + metrics.RequestsError = served - Cardinality(InFlight)
          /\ InFlight = {} =>
                metrics.RequestsTotal = metrics.RequestsSuccess + metrics.RequestsError
          /\ metrics.MessagesProduced >= Cardinality(Accepted202)
          /\ metrics.MessagesProduced <= metrics.RequestsSuccess + Cardinality(Accepted202))
    /\ [][/\ metrics'.RequestsTotal >= metrics.RequestsTotal
          /\ metrics'.RequestsSuccess >= metrics.RequestsSuccess
          /\ metrics'.RequestsError >= metrics.RequestsError
          /\ metrics'.MessagesProduced >= metrics.MessagesProduced]_vars

\* C23 witness: two webhooks were published while both were in flight, and both have
\* since finished
C23_Witness ==
    /\ InFlight = {}
    /\ served = 2
    /\ metrics.RequestsTotal = 2
    /\ metrics.RequestsSuccess = 2
    /\ metrics.MessagesProduced = 2

\* C32: however the steps of two requests interleave, the topic, key, value and headers
\* of each Produce call and of the message built from it are those of the call's own
\* request, and the response of a webhook request is decided by its own request and
\* its own publish outcome: 202 with its own topic and request id exactly when its own
\* Produce returned nil, 500 exactly when its own Produce failed, 401 exactly when it
\* is a POST without a configured credential, and an error without a Produce call
\* otherwise.
C32_RequestsDoNotMix ==
    \A c \in ConnPair :
        conn[c].pc # "idle" =>
            LET r == conn[c].req
                t == StrippedPath(r.Path)
                keyIsOwn(key) ==
                    key.nil \/ (HdrWebhookKey \in DOMAIN r.Header
                                  /\ key.bytes = r.Header[HdrWebhookKey][1])
                valueIsOwn(v) == v.head = r.Body.head /\ v.pad = r.Body.pad
            IN  /\ \A i \in 1..Len(conn[c].calls) :
                      /\ conn[c].calls[i].topic = t
                      /\ keyIsOwn(conn[c].calls[i].key)
                      /\ valueIsOwn(conn[c].calls[i].value)
                      /\ \A n \in DOMAIN conn[c].calls[i].headers :
                            /\ n \in DOMAIN r.Header
                            /\ conn[c].calls[i].headers[n] = r.Header[n][1]
                /\ conn[c].msg # NoMessage =>
                      /\ conn[c].msg.Topic = t
                      /\ keyIsOwn(conn[c].msg.Key)
                      /\ valueIsOwn(conn[c].msg.Value)
                      /\ \A h \in conn[c].msg.Headers :
                            h.Key \in DOMAIN r.Header /\ h.Value = r.Header[h.Key][1]
                /\ (conn[c].pc = "written" /\ GoesToWebhookHandler(r)) =>
                      /\ conn[c].w.codes = <<202>> <=>
                            (conn[c].calls # <<>> /\ conn[c].err = "nil")
                      /\ conn[c].w.codes = <<500>> <=>
                            (conn[c].calls # <<>> /\ conn[c].err \notin {"nil", "none"})
                      /\ conn[c].calls = <<>> <=>
                            (Len(conn[c].w.codes) = 1
                                /\ conn[c].w.codes[1] \in {400, 401, 405, 413})
                      /\ conn[c].w.codes = <<401>> <=>
                            /\ r.Method = "POST"
                            /\ HasAuth(multiAuth)
                            /\ ~PresentsConfiguredCredential(r)
                      /\ conn[c].w.codes = <<202>> =>
                            /\ conn[c].w.bodies[1].topic = t
                            /\ InboundRequestID(r) # Empty =>
                                  conn[c].w.bodies[1].request_id = InboundRequestID(r)
                            /\ \A o \in ConnPair \ {c} :
                                  (conn[o].pc # "idle"
                                      /\ conn[o].w.header[HdrRequestID]
                                            # conn[c].w.header[HdrRequestID]) =>
                                      conn[c].w.bodies[1].request_id
                                          # conn[o].w.header[HdrRequestID][1]

\* C32 witness: two webhooks with different topics, keys and bodies are in flight with
\* their messages queued, one of them to 'a.b' with the largest body and the key k1
C32_Witness ==
    \E c1, c2 \in ConnPair :
        /\ conn[c1].pc = "waiting" /\ conn[c2].pc = "waiting"
        /\ conn[c1].msg.Topic = Events
        /\ conn[c2].msg.Topic = DottedTopic
        /\ conn[c1].msg.Value # conn[c2].msg.Value
        /\ conn[c1].msg.Key.nil
        /\ ~conn[c2].msg.Key.nil
        /\ conn[c2].req.Body = MaxBody

\* C36: a request adds one to requests_total when it is taken up and to nothing else;
\* when it finishes it adds one to requests_error if the status written is 400 or
\* more (401 included) and one to requests_success otherwise, never to both; no other
\* step touches the three counters.  So success plus error never exceeds total, the
\* difference is the number of requests in flight, and they are equal when none is.
C36_EachRequestCountedOnce ==
    /\ [](/\ metrics.RequestsSuccess + metrics.RequestsError <= metrics.RequestsTotal
          /\ metrics.RequestsTotal - (metrics.RequestsSuccess + metrics.RequestsError)
                = Cardinality(InFlight)
          /\ InFlight = {} =>
                metrics.RequestsSuccess + metrics.RequestsError = metrics.RequestsTotal)
    /\ [][\A c \in ConnPair :
             /\ (conn[c].pc = "idle" /\ conn'[c].pc # "idle") =>
                   /\ metrics'.RequestsTotal = metrics.RequestsTotal + 1
                   /\ metrics'.RequestsSuccess = metrics.RequestsSuccess
                   /\ metrics'.RequestsError = metrics.RequestsError
             /\ (conn[c].pc = "written" /\ conn'[c].pc = "idle") =>
                   /\ metrics'.RequestsTotal = metrics.RequestsTotal
                   /\ Len(conn[c].w.codes) = 1
                   /\ IF conn[c].w.codes[1] >= 400
                      THEN /\ metrics'.RequestsError = metrics.RequestsError + 1
                           /\ metrics'.RequestsSuccess = metrics.RequestsSuccess
                      ELSE /\ metrics'.RequestsSuccess = metrics.RequestsSuccess + 1
                           /\ metrics'.RequestsError = metrics.RequestsError
             /\ (\A o \in ConnPair : (conn[o].pc = "idle") <=> (conn'[o].pc = "idle")) =>
                   /\ metrics'.RequestsTotal = metrics.RequestsTotal
                   /\ metrics'.RequestsSuccess = metrics.RequestsSuccess
                   /\ metrics'.RequestsError = metrics.RequestsError]_vars

\* C36 witness: one request has finished and was counted as an error, while a second,
\* answered 401 and not yet finished, is counted in the total only
C36_Witness ==
    \E c1, c2 \in ConnPair :
        /\ conn[c1].pc = "idle"
        /\ conn[c2].pc = "written"
        /\ conn[c2].w.codes = <<401>>
        /\ metrics.RequestsTotal = 2
        /\ metrics.RequestsError = 1
        /\ metrics.RequestsSuccess = 0

-----------------------------------------------------------------------------
(* Properties of the start of the process, checked under SpecConfig *)

\* main holds a configuration that Load returned
HasConfig == main.pc \in {"loaded", "producer", "users", "auth", "listening"}

\* the authenticator has been built
HasAuthenticator == main.pc \in {"auth", "listening"}

\* the configured users give name the password pass: the last entry of that name does
UsersGive(list, name, pass) ==
    \E i \in 1..Len(list) :
        /\ list[i] = User(name, pass)
        /\ \A j \in (i + 1)..Len(list) : list[j].Username # name

\* C26: the authenticator main builds from a validated configuration has the Basic
\* sub-strategy exactly when the users list is non-empty and the Bearer sub-strategy
\* exactly when the tokens list is non-empty, whatever auth.type says: with a non-empty
\* list a request without credentials is refused and a request with configured
\* credentials is accepted; with both lists empty every request is allowed.
C26_AuthenticatorFollowsCredentials ==
    HasAuthenticator =>
        /\ multiAuth.basic # NilAuth <=> Len(main.cfg.Auth.Users) > 0
        /\ multiAuth.bearer # NilAuth <=> Len(main.cfg.Auth.Tokens) > 0
        /\ lastCall # NoCall =>
              /\ (Len(main.cfg.Auth.Users) = 0 /\ Len(main.cfg.Auth.Tokens) = 0)
                    => lastCall.result
              /\ (Len(main.cfg.Auth.Users) > 0 \/ Len(main.cfg.Auth.Tokens) > 0) =>
                    /\ ~HasAuthorization(lastCall.request) => ~lastCall.result
                    /\ lastCall.request = WithAuthorization(Bearer \o <<" ">> \o Tok1) =>
                          (lastCall.result <=>
                              \E i \in 1..Len(main.cfg.Auth.Tokens) :
                                  main.cfg.Auth.Tokens[i] = Tok1)
                    /\ lastCall.request = WithAuthorization(Bearer \o <<" ">> \o Tok3) =>
                          ~lastCall.result
                    /\ lastCall.request
                          = WithAuthorization(Basic \o <<" ">> \o <<"Y","T","p","w">>) =>
                          (lastCall.result <=> UsersGive(main.cfg.Auth.Users, UserA, PassP))

\* C26 witness: auth.type is 'none', two tokens are configured, and the started server
\* refused a request without credentials
C26_Witness ==
    /\ main.pc = "listening"
    /\ main.cfg.Auth.Type = TypeNone
    /\ main.cfg.Auth.Tokens = <<Tok1, Tok2>>
    /\ main.cfg.Auth.Users = <<>>
    /\ lastCall # NoCall
    /\ lastCall.request = NoAuthorization
    /\ ~lastCall.result

\* the errors of validate
ValidationErrors ==
    {"invalid server port", "kafka brokers cannot be empty",
     "kafka broker looks like an un-replaced placeholder",
     "auth.type is 'basic' but no users are configured",
     "auth.type is 'bearer' but no tokens are configured"}

\* b holds the text REPLACE_VIA somewhere
HoldsPlaceholder(b) ==
    \E i \in 0..(Len(b) - Len(Placeholder)) :
        \A k \in 1..Len(Placeholder) : b[i + k] = Placeholder[k]

\* the configuration must be refused
MustBeRefused(c) ==
    \/ c.Server.Port < 1
    \/ c.Server.Port > 65535
    \/ c.Kafka.Brokers = <<>>
    \/ \E i \in 1..Len(c.Kafka.Brokers) : HoldsPlaceholder(c.Kafka.Brokers[i])
    \/ IsBasicWord(c.Auth.Type) /\ c.Auth.Users = <<>>
    \/ IsBearerWord(c.Auth.Type) /\ c.Auth.Tokens = <<>>

\* the configuration validate is given: the defaults, the file, the environment
Resolved == applyEnv(loadFile(defaults, main.file).cfg, main.environ)

\* the config file is absent or a readable document
FileIsUsable == main.file.kind \in {"none", "document"}

\* C27: validation fails exactly when the port is outside 1..65535, the broker list is
\* empty, a broker holds REPLACE_VIA, auth.type is basic (any case) without users or
\* bearer (any case) without tokens; any other auth.type passes; and a process whose
\* validation failed has exited with no producer created and no server listening.
C27_ValidationIsFatal ==
    (main.pc # "start" /\ FileIsUsable) =>
        /\ MustBeRefused(Resolved) <=> (main.pc = "exited" /\ main.err \in ValidationErrors)
        /\ MustBeRefused(Resolved) =>
              /\ main.cfg = NilConfig
              /\ ~main.producer
              /\ ~main.listening
              /\ multiAuth = NilAuth
        /\ ~MustBeRefused(Resolved) => (main.pc = "loaded" => main.cfg = Resolved)

\* C27 witness: auth.type BASIC in capitals and no users: the process has exited on
\* the validation error before creating a producer
C27_Witness ==
    /\ main.pc = "exited"
    /\ main.err = "auth.type is 'basic' but no users are configured"
    /\ main.file = File("auth.type" :> <<"B","A","S","I","C">>)
    /\ main.environ = EmptyMap
    /\ ~main.producer
    /\ ~main.listening

\* C28: Load takes the credentials from the environment: AUTH_TOKENS 't1,t2' becomes
\* the tokens t1, t2 in place of the file's; AUTH_BASIC_USERS 'a:p,bad,b:q:r' becomes
\* the users a/p and b/q:r; AUTH_TYPE bearer with AUTH_TOKENS, or basic with
\* AUTH_BASIC_USERS, and nothing else wrong, loads.
C28_CredentialsFromEnvironment ==
    /\ (HasConfig /\ Getenv(main.environ, "AUTH_TOKENS") = EnvTokens)
          => main.cfg.Auth.Tokens = <<Tok1, Tok2>>
    /\ (HasConfig /\ Getenv(main.environ, "AUTH_BASIC_USERS") = EnvUsers)
          => main.cfg.Auth.Users = <<User(UserA, PassP), User(UserB, <<"q",":","r">>)>>
    /\ (/\ main.pc # "start"
        /\ main.file = NoFile
        /\ main.environ \in {("AUTH_TYPE" :> TypeBearer) @@ ("AUTH_TOKENS" :> EnvTokens),
                             ("AUTH_TYPE" :> TypeBasic) @@ ("AUTH_BASIC_USERS" :> EnvUsers)})
          => main.err \notin ValidationErrors

\* the value of an integer setting: the environment variable when it is set to an
\* integer, else the file's value, else the default
IntSetting(envName, fileKey, default) ==
    IF Getenv(main.environ, envName) # <<>> /\ Atoi(Getenv(main.environ, envName)).err = "nil"
    THEN Atoi(Getenv(main.environ, envName)).n
    ELSE IF main.file.kind = "document" /\ fileKey \in DOMAIN main.file.doc
    THEN main.file.doc[fileKey]
    ELSE default

\* the value of a text setting: the environment variable when it is set and not empty,
\* else the file's value, else the default
TextSetting(envName, fileKey, default) ==
    IF Getenv(main.environ, envName) # <<>> THEN Getenv(main.environ, envName)
    ELSE IF main.file.kind = "document" /\ fileKey \in DOMAIN main.file.doc
    THEN main.file.doc[fileKey]
    ELSE default

\* C29 as stated: every non-empty environment variable overrides the file and the
\* default
C29_EnvironmentAlwaysOverrides ==
    HasConfig =>
        /\ Getenv(main.environ, "SERVER_PORT") # <<>> =>
              /\ Atoi(Getenv(main.environ, "SERVER_PORT")).err = "nil"
              /\ main.cfg.Server.Port = Atoi(Getenv(main.environ, "SERVER_PORT")).n
        /\ Getenv(main.environ, "KAFKA_RETRIES") # <<>> =>
              /\ Atoi(Getenv(main.environ, "KAFKA_RETRIES")).err = "nil"
              /\ main.cfg.Kafka.Retries = Atoi(Getenv(main.environ, "KAFKA_RETRIES")).n

\* C29: Load resolves each setting by precedence environment over file over default;
\* an environment variable counts when it is not empty and, for an integer setting,
\* is an integer; a setting named in neither keeps its default (port 8080, acks
\* 'all', retries 3, compression 'snappy', broker localhost:9092).
C29_EnvOverFileOverDefault ==
    HasConfig =>
        /\ main.cfg.Server.Port = IntSetting("SERVER_PORT", "server.port", 8080)
        /\ main.cfg.Kafka.Retries = IntSetting("KAFKA_RETRIES", "kafka.retries", 3)
        /\ main.cfg.Kafka.Acks = TextSetting("KAFKA_ACKS", "kafka.acks", AcksAll)
        /\ main.cfg.Kafka.CompressionType
              = TextSetting("KAFKA_COMPRESSION_TYPE", "kafka.compression_type", Snappy)
        /\ main.cfg.Auth.Type = TextSetting("AUTH_TYPE", "auth.type", TypeNone)
        /\ main.cfg.Kafka.Brokers =
              IF Getenv(main.environ, "KAFKA_BROKERS") = EnvBrokers
              THEN << <<"b","1">>, <<"b","2">> >>
              ELSE IF main.file.kind = "document" /\ "kafka.brokers" \in DOMAIN main.file.doc
              THEN main.file.doc["kafka.brokers"]
              ELSE <<LocalBroker>>

\* C29 witness: the port comes from the environment over the file, the retries from
\* the file because KAFKA_RETRIES is not an integer, the brokers from the environment,
\* acks from the file, and the read timeout from the defaults
C29_Witness ==
    /\ main.pc = "loaded"
    /\ Getenv(main.environ, "SERVER_PORT") = <<"9","9","9","9">>
    /\ Getenv(main.environ, "KAFKA_RETRIES") = <<"1","x">>
    /\ main.file.kind = "document"
    /\ "server.port" \in DOMAIN main.file.doc /\ main.file.doc["server.port"] = 9090
    /\ main.cfg.Server.Port = 9999
    /\ main.cfg.Kafka.Retries = 5
    /\ main.cfg.Kafka.Brokers = << <<"b","1">>, <<"b","2">> >>
    /\ main.cfg.Kafka.Acks = <<"1">>
    /\ main.cfg.Server.ReadTimeout = 10

-----------------------------------------------------------------------------
(* Properties of the running process, checked under SpecProcess *)

\* C34: once the publish wait of a request has ended because its context ended, by the
\* deadline or by cancellation, and the request is answered 500 'produce_error', the
\* message queued for it is not stored in the topic afterwards: no step adds the
\* message of such a request to the broker's log.
C34_AbandonedMessageNeverDelivered ==
    [][\A n \in outside.abandoned : n \in outside'.log => n \in outside.log]_vars

\* C35: messages_produced goes up by one exactly in a step in which a Produce call
\* returns nil, and in no other step; it never exceeds the number of messages the
\* broker has stored and confirmed, and when no request is being served it is the
\* number of 202 responses clients have received.
C35_MessagesProducedCountsConfirmed ==
    /\ [](/\ metrics.MessagesProduced <= Cardinality(outside.log)
          /\ (\A c \in Conns : conn[c].pc = "idle") =>
                metrics.MessagesProduced = outside.accepted
          /\ metrics.MessagesProduced =
                outside.accepted
                  + Cardinality({c \in Conns : conn[c].pc = "written"
                                                  /\ conn[c].w.codes = <<202>>}))
    /\ [][LET returnedNil ==
                 {c \in Conns : /\ conn[c].pc \in {"produce", "waiting"}
                                /\ conn'[c].pc = "written"
                                /\ conn'[c].err = "nil"}
          IN  metrics'.MessagesProduced = metrics.MessagesProduced + Cardinality(returnedNil)]_vars

\* C35 witness: of two requests the first was stored and confirmed and answered 202,
\* the second was answered 500 when its deadline passed and stored by the broker
\* afterwards: two messages in the log, one counted
C35_Witness ==
    /\ \A c \in Conns : conn[c].pc = "idle"
    /\ outside.log = {1, 2}
    /\ outside.abandoned = {2}
    /\ outside.accepted = 1
    /\ metrics.MessagesProduced = 1

\* C38: after the signal no request is taken up; the producer is closed only after
\* srv.Shutdown has returned; and no handler calls Produce once the producer is closed.
C38_NoProduceAfterClose ==
    /\ [](main.producer = "closed" => main.pc \in {"closed", "exited"})
    /\ [][~Listening => served' = served]_vars
    /\ [][\A c \in Conns :
             (conn[c].pc = "handler" /\ conn'[c].pc = "produce") =>
                 main.producer = "open"]_vars

====
